---- MODULE Spec2Model ----
(***************************************************************************)
(* Bit-level model of the fixed-width vector utilities of cpuminer-opt:    *)
(* simd-utils/simd-128.h (128 bit, SSE2 .. AVX512VL) and the 512 bit       *)
(* module (AVX512).                                                        *)
(*                                                                         *)
(* A vector is a tuple of bits, least significant first: bit i of the      *)
(* register is v[i+1].  Byte b is bits 8b..8b+7, a lane of width w is bits *)
(* l*w .. l*w+w-1.  A 64 bit literal of the source is written as the tuple *)
(* of its eight bytes in the order the source spells them (most            *)
(* significant first) and laid out in memory little-endian, as x86 does.   *)
(*                                                                         *)
(* The library holds no state.  Each specification below is a harness:     *)
(* Init draws the build tier and the call's inputs from bounded sets, the  *)
(* actions apply the library's operations to the registers, and the        *)
(* history variables (hist, vals) record what was applied to what.         *)
(***************************************************************************)
EXTENDS Integers, Sequences, FiniteSets, TLC

VARIABLES
  tier,   \* capability tier the build was elaborated for
  size,   \* vector width of the module under exercise: 128 or 512
  w,      \* lane width / element granularity argument of the calls
  c,      \* count argument of the calls (rotate amount, element count)
  sp,     \* source pointer of a block call, as a slot offset
  dp,     \* destination pointer of a block call, as a slot offset
  hist,   \* names of the operations applied since the load, in order
  vals    \* the caller's vectors (the registers <<v0, v1>>, or the slots of
          \* a memory block) as loaded (vals[1]) and after each operation:
          \* vals[m+1] is the result of operation hist[m]

vars == <<tier, size, w, c, sp, dp, hist, vals>>

(***************************************************************************)
(* Bounds of the harness.                                                  *)
(***************************************************************************)
NumVec == 2        \* number of distinct input patterns drawn by Init
CountOver == 1     \* how far past the lane width a count argument may go
MaxOps == 2        \* operations applied to one loaded input

(***************************************************************************)
(* Capability tiers, totally ordered by richness.                          *)
(***************************************************************************)
Tiers == <<"SSE2", "SSSE3", "SSE4_1", "AVX2", "AVX512">>

Rank(t) == CHOOSE i \in 1..Len(Tiers) : Tiers[i] = t

Has(t, feature) == Rank(t) >= Rank(feature)

(***************************************************************************)
(* Bit and byte views of a vector.                                         *)
(***************************************************************************)
Pow2(e) == CASE e = 0 -> 1 [] e = 1 -> 2 [] e = 2 -> 4 [] e = 3 -> 8
             [] e = 4 -> 16 [] e = 5 -> 32 [] e = 6 -> 64 [] e = 7 -> 128

Bit(v, i) == v[i + 1]

BitOfInt(x, j) == (x \div Pow2(j)) % 2

ByteOf(v, b) ==
  Bit(v, 8*b) + 2*Bit(v, 8*b+1) + 4*Bit(v, 8*b+2) + 8*Bit(v, 8*b+3)
    + 16*Bit(v, 8*b+4) + 32*Bit(v, 8*b+5) + 64*Bit(v, 8*b+6)
    + 128*Bit(v, 8*b+7)

\* The vector whose bytes, from byte 0 up, are the elements of bs.
FromBytes(bs) == [j \in 1..(8 * Len(bs)) |->
                    BitOfInt(bs[((j - 1) \div 8) + 1], (j - 1) % 8)]

Zero(n) == [j \in 1..n |-> 0]

\* Input patterns: pattern j has byte b equal to (2j+1)*b + 17j + 1 mod 256,
\* so all bytes of a vector differ and no pattern is a rotation of itself.
TestVec(n, j) == [i \in 1..n |->
                    BitOfInt((((i - 1) \div 8) * (2*j + 1) + 17*j + 1) % 256,
                             (i - 1) % 8)]

(***************************************************************************)
(* The x86 intrinsics the library is written in.                           *)
(***************************************************************************)

\* _mm_srli_epi16/32/64, _mm512_srli_epi*: logical right shift of every lw
\* bit lane by n.  The count is unsigned: any count above lw-1 (and so a
\* negative int) clears the lane.
srli_epi(lw, v, n) ==
  [j \in 1..Len(v) |->
     IF n \in 0..(lw - 1) /\ ((j - 1) % lw) + n < lw THEN v[j + n] ELSE 0]

\* _mm_slli_epi16/32/64: logical left shift of every lane, same count rule.
slli_epi(lw, v, n) ==
  [j \in 1..Len(v) |->
     IF n \in 0..(lw - 1) /\ ((j - 1) % lw) - n >= 0 THEN v[j - n] ELSE 0]

\* _mm_ror_epi32/64, _mm512_ror_epi32/64 (AVX512): native rotate right of
\* every lane; the hardware takes the count modulo the lane width.
ror_epi(lw, v, n) ==
  [j \in 1..Len(v) |->
     LET p == (j - 1) % lw
     IN  v[(j - 1) - p + ((p + (n % lw)) % lw) + 1]]

\* _mm_rol_epi32/64, _mm512_rol_epi32/64: native rotate left.
rol_epi(lw, v, n) ==
  [j \in 1..Len(v) |->
     LET p == (j - 1) % lw
     IN  v[(j - 1) - p + ((p + lw - (n % lw)) % lw) + 1]]

\* _mm_or_si128, _mm512_or_si512: bitwise OR.
or_si(a, b) == [j \in 1..Len(a) |-> IF a[j] = 1 \/ b[j] = 1 THEN 1 ELSE 0]

\* _mm_or_si256 as the SSE2 double-buffered rotates call it on their 128 bit
\* operands: the bitwise OR of the two operands.
or_si256(a, b) == or_si(a, b)

(***************************************************************************)
(* Bit rotations, 128 bit module.                                          *)
(***************************************************************************)

mm128_ror_64(t, v, k) ==
  IF Has(t, "AVX512") THEN ror_epi(64, v, k)
  ELSE or_si(srli_epi(64, v, k), slli_epi(64, v, 64 - k))

\* A rotate left whose two shifts are exchanged: it rotates right.
mm128_rol_64_swapped(t, v, k) ==
  IF Has(t, "AVX512") THEN ror_epi(64, v, k)
  ELSE or_si(srli_epi(64, v, k), slli_epi(64, v, 64 - k))

mm128_rol_64(t, v, k) ==
  IF Has(t, "AVX512") THEN rol_epi(64, v, k)
  ELSE or_si(slli_epi(64, v, k), srli_epi(64, v, 64 - k))

\* A rotate right whose complementary shift is one short.
mm128_ror_32_offbyone(t, v, k) ==
  IF Has(t, "AVX512") THEN ror_epi(32, v, k)
  ELSE or_si(srli_epi(32, v, k), slli_epi(32, v, 31 - k))

mm128_ror_32(t, v, k) ==
  IF Has(t, "AVX512") THEN ror_epi(32, v, k)
  ELSE or_si(srli_epi(32, v, k), slli_epi(32, v, 32 - k))

mm128_rol_32(t, v, k) ==
  IF Has(t, "AVX512") THEN rol_epi(32, v, k)
  ELSE or_si(slli_epi(32, v, k), srli_epi(32, v, 32 - k))

\* The 16 bit rotates are defined outside the tier conditional: the shift-or
\* form at every tier.
mm128_ror_16(v, k) == or_si(srli_epi(16, v, k), slli_epi(16, v, 16 - k))

mm128_rol_16(v, k) == or_si(slli_epi(16, v, k), srli_epi(16, v, 16 - k))

mm128_rol_var_32(v, k) == or_si(slli_epi(32, v, k), srli_epi(32, v, 32 - k))

\* The double-buffered rotates are statement macros over the variables v1
\* and v0; the value here is the pair <<v0, v1>> after the macro.  With
\* AVX512VL the macro is two expression statements whose results are not
\* assigned, so both variables keep their values.
mm128_rorx2_64(t, v1, v0, k) ==
  IF Has(t, "AVX512") THEN <<v0, v1>>
  ELSE LET t0 == srli_epi(64, v0, k)
           t1 == srli_epi(64, v1, k)
           a0 == slli_epi(64, v0, 64 - k)
           a1 == slli_epi(64, v1, 64 - k)
       IN  <<or_si256(a0, t0), or_si256(a1, t1)>>

mm128_rolx2_64(t, v1, v0, k) ==
  IF Has(t, "AVX512") THEN <<v0, v1>>
  ELSE LET t0 == slli_epi(64, v0, k)
           t1 == slli_epi(64, v1, k)
           a0 == srli_epi(64, v0, 64 - k)
           a1 == srli_epi(64, v1, 64 - k)
       IN  <<or_si256(a0, t0), or_si256(a1, t1)>>

mm128_rorx2_32(t, v1, v0, k) ==
  IF Has(t, "AVX512") THEN <<v0, v1>>
  ELSE LET t0 == srli_epi(32, v0, k)
           t1 == srli_epi(32, v1, k)
           a0 == slli_epi(32, v0, 32 - k)
           a1 == slli_epi(32, v1, 32 - k)
       IN  <<or_si256(a0, t0), or_si256(a1, t1)>>

mm128_rolx2_32(t, v1, v0, k) ==
  IF Has(t, "AVX512") THEN <<v0, v1>>
  ELSE LET t0 == slli_epi(32, v0, k)
           t1 == slli_epi(32, v1, k)
           a0 == srli_epi(32, v0, 32 - k)
           a1 == srli_epi(32, v1, 32 - k)
       IN  <<or_si256(a0, t0), or_si256(a1, t1)>>

(***************************************************************************)
(* Bit rotations, 512 bit module: the native instructions.                 *)
(***************************************************************************)
mm512_ror_64(v, k) == ror_epi(64, v, k)
mm512_rol_64(v, k) == rol_epi(64, v, k)
mm512_ror_32(v, k) == ror_epi(32, v, k)
mm512_rol_32(v, k) == rol_epi(32, v, k)

\* The rotate the harness calls for module n and lane width lw.
RorCall(t, n, lw, v, k) ==
  CASE n = 128 /\ lw = 64 -> mm128_ror_64(t, v, k)
    [] n = 128 /\ lw = 32 -> mm128_ror_32(t, v, k)
    [] n = 128 /\ lw = 16 -> mm128_ror_16(v, k)
    [] n = 512 /\ lw = 64 -> mm512_ror_64(v, k)
    [] n = 512 /\ lw = 32 -> mm512_ror_32(v, k)

RolCall(t, n, lw, v, k) ==
  CASE n = 128 /\ lw = 64 -> mm128_rol_64(t, v, k)
    [] n = 128 /\ lw = 32 -> mm128_rol_32(t, v, k)
    [] n = 128 /\ lw = 16 -> mm128_rol_16(v, k)
    [] n = 512 /\ lw = 64 -> mm512_rol_64(v, k)
    [] n = 512 /\ lw = 32 -> mm512_rol_32(v, k)

Rorx2Call(t, lw, v1, v0, k) ==
  IF lw = 64 THEN mm128_rorx2_64(t, v1, v0, k) ELSE mm128_rorx2_32(t, v1, v0, k)

Rolx2Call(t, lw, v1, v0, k) ==
  IF lw = 64 THEN mm128_rolx2_64(t, v1, v0, k) ELSE mm128_rolx2_32(t, v1, v0, k)

(***************************************************************************)
(* Constants: 64 bit literals and the vectors assembled from them.         *)
(***************************************************************************)

\* The eight bytes of a 64 bit literal in memory order (least significant
\* first); q spells them as the source does, most significant first.
LE(q) == [j \in 1..8 |-> q[9 - j]]

ZeroBytes(n) == [j \in 1..n |-> 0]

\* mm128_mov64_128: movq, the integer in the low 64 bits, the rest zero.
mm128_mov64_128(q) == FromBytes(LE(q) \o ZeroBytes(8))

\* _mm_insert_epi64( v, q, i ): 64 bit element i of v replaced by q.
insert_epi64(v, q, i) ==
  LET b == FromBytes(LE(q))
  IN  [j \in 1..Len(v) |-> IF (j - 1) \div 64 = i THEN b[((j - 1) % 64) + 1]
                                                 ELSE v[j]]

\* _mm_set_epi64x( hi, lo )
set_epi64x(hi, lo) == FromBytes(LE(lo) \o LE(hi))

\* m128_const_64( hi, lo ): insert with SSE4.1, _mm_set_epi64x without.
m128_const_64(t, hi, lo) ==
  IF Has(t, "SSE4_1") THEN insert_epi64(mm128_mov64_128(lo), hi, 1)
  ELSE set_epi64x(hi, lo)

\* m512_const_64( i7, .., i0 ): the union overlay, u64[k] = ik.
m512_const_64(i7, i6, i5, i4, i3, i2, i1, i0) ==
  FromBytes(LE(i0) \o LE(i1) \o LE(i2) \o LE(i3)
              \o LE(i4) \o LE(i5) \o LE(i6) \o LE(i7))

(***************************************************************************)
(* Shuffle intrinsics.                                                     *)
(***************************************************************************)

\* _mm_shuffle_epi8, _mm512_shuffle_epi8 (pshufb / vpshufb): byte b of the
\* result is zero when bit 7 of index byte b is set, and otherwise the byte
\* of v, in the same 128 bit lane as b, selected by the low 4 bits of the
\* index byte.
shuffle_epi8(v, idx) ==
  LET sel == [b \in 1..(Len(v) \div 8) |-> ByteOf(idx, b - 1)]
  IN  [j \in 1..Len(v) |->
         LET b == (j - 1) \div 8
             i == sel[b + 1]
         IN  IF i >= 128 THEN 0
             ELSE v[8 * (16 * (b \div 16) + (i % 16)) + ((j - 1) % 8) + 1]]

\* _MM_SHUFFLE( z, y, x, w ) and the 2 bit field i of a shuffle immediate.
MM_SHUFFLE(z, y, x, u) == 64*z + 16*y + 4*x + u

Field2(imm, i) == (imm \div Pow2(2 * i)) % 4

\* _mm_shufflelo_epi16: word i of the low 64 bits is the low word selected
\* by field i of the immediate; the high 64 bits are copied.
shufflelo_epi16(v, imm) ==
  [j \in 1..Len(v) |->
     LET wd == (j - 1) \div 16
     IN  IF wd < 4 THEN v[16 * Field2(imm, wd) + ((j - 1) % 16) + 1]
         ELSE v[j]]

\* _mm_shufflehi_epi16: the same on the high 64 bits.
shufflehi_epi16(v, imm) ==
  [j \in 1..Len(v) |->
     LET wd == (j - 1) \div 16
     IN  IF wd >= 4 THEN v[16 * (4 + Field2(imm, wd - 4)) + ((j - 1) % 16) + 1]
         ELSE v[j]]

(***************************************************************************)
(* Endian byte swap, 128 bit module.                                       *)
(***************************************************************************)
Ctl128_bswap_64(t) ==
  m128_const_64(t, <<\h08, \h09, \h0a, \h0b, \h0c, \h0d, \h0e, \h0f>>,
                   <<\h00, \h01, \h02, \h03, \h04, \h05, \h06, \h07>>)

Ctl128_bswap_32(t) ==
  m128_const_64(t, <<\h0c, \h0d, \h0e, \h0f, \h08, \h09, \h0a, \h0b>>,
                   <<\h04, \h05, \h06, \h07, \h00, \h01, \h02, \h03>>)

Ctl128_bswap_16(t) ==
  m128_const_64(t, <<\h0e, \h0f, \h0c, \h0d, \h0a, \h0b, \h08, \h09>>,
                   <<\h06, \h07, \h04, \h05, \h02, \h03, \h00, \h01>>)

mm128_bswap_64_SSSE3(t, v) == shuffle_epi8(v, Ctl128_bswap_64(t))

mm128_bswap_32_SSSE3(t, v) == shuffle_epi8(v, Ctl128_bswap_32(t))

\* The macro text lacks the parenthesis that closes _mm_shuffle_epi8( ; the
\* call it spells is modelled.
mm128_bswap_16_SSSE3(t, v) == shuffle_epi8(v, Ctl128_bswap_16(t))

\* or( slli_epi16( v, 8 ), srli_epi16( v, 8 ) ): the bytes of each word
\* exchanged.
SwapWordBytes(v) == or_si(slli_epi(16, v, 8), srli_epi(16, v, 8))

\* A 64 bit swap whose word shuffles rotate the words (0x39) instead of
\* reversing them.
mm128_bswap_64_SSE2_rot(v) ==
  LET v1 == SwapWordBytes(v)
      v2 == shufflelo_epi16(v1, MM_SHUFFLE(0, 3, 2, 1))
  IN  shufflehi_epi16(v2, MM_SHUFFLE(0, 3, 2, 1))

mm128_bswap_64_SSE2(v) ==
  LET v1 == SwapWordBytes(v)
      v2 == shufflelo_epi16(v1, MM_SHUFFLE(0, 1, 2, 3))
  IN  shufflehi_epi16(v2, MM_SHUFFLE(0, 1, 2, 3))

\* A word shuffle that reverses only the low half.
mm128_bswap_32_SSE2_lo(v) ==
  LET v1 == SwapWordBytes(v)
  IN  shufflelo_epi16(v1, MM_SHUFFLE(2, 3, 0, 1))

mm128_bswap_32_SSE2(v) ==
  LET v1 == SwapWordBytes(v)
      v2 == shufflelo_epi16(v1, MM_SHUFFLE(2, 3, 0, 1))
  IN  shufflehi_epi16(v2, MM_SHUFFLE(2, 3, 0, 1))

mm128_bswap_16_SSE2(v) == SwapWordBytes(v)

mm128_bswap_64(t, v) ==
  IF Has(t, "SSSE3") THEN mm128_bswap_64_SSSE3(t, v) ELSE mm128_bswap_64_SSE2(v)

mm128_bswap_32(t, v) ==
  IF Has(t, "SSSE3") THEN mm128_bswap_32_SSSE3(t, v) ELSE mm128_bswap_32_SSE2(v)

mm128_bswap_16(t, v) ==
  IF Has(t, "SSSE3") THEN mm128_bswap_16_SSSE3(t, v) ELSE mm128_bswap_16_SSE2(v)

(***************************************************************************)
(* Endian byte swap, 512 bit module.                                       *)
(***************************************************************************)
Ctl512_bswap_64 ==
  m512_const_64(
    <<\h38, \h39, \h3a, \h3b, \h3c, \h3d, \h3e, \h3f>>,
    <<\h30, \h31, \h32, \h33, \h34, \h35, \h36, \h37>>,
    <<\h28, \h29, \h2a, \h2b, \h2c, \h2d, \h2e, \h2f>>,
    <<\h20, \h21, \h22, \h23, \h24, \h25, \h26, \h27>>,
    <<\h18, \h19, \h1a, \h1b, \h1c, \h1d, \h1e, \h1f>>,
    <<\h10, \h11, \h12, \h13, \h14, \h15, \h16, \h17>>,
    <<\h08, \h09, \h0a, \h0b, \h0c, \h0d, \h0e, \h0f>>,
    <<\h00, \h01, \h02, \h03, \h04, \h05, \h06, \h07>>)

Ctl512_bswap_32 ==
  m512_const_64(
    <<\h3c, \h3d, \h3e, \h3f, \h38, \h39, \h3a, \h3b>>,
    <<\h34, \h35, \h36, \h37, \h30, \h31, \h32, \h33>>,
    <<\h2c, \h2d, \h2e, \h2f, \h28, \h29, \h2a, \h2b>>,
    <<\h24, \h25, \h26, \h27, \h20, \h21, \h22, \h23>>,
    <<\h1c, \h1d, \h1e, \h1f, \h18, \h19, \h1a, \h1b>>,
    <<\h14, \h15, \h16, \h17, \h10, \h11, \h12, \h13>>,
    <<\h0c, \h0d, \h0e, \h0f, \h08, \h09, \h0a, \h0b>>,
    <<\h04, \h05, \h06, \h07, \h00, \h01, \h02, \h03>>)

Ctl512_bswap_16 ==
  m512_const_64(
    <<\h3e, \h3f, \h3c, \h3d, \h3a, \h3b, \h38, \h39>>,
    <<\h36, \h37, \h34, \h35, \h32, \h33, \h30, \h31>>,
    <<\h2e, \h2f, \h2c, \h2d, \h2a, \h2b, \h28, \h29>>,
    <<\h26, \h27, \h24, \h25, \h22, \h23, \h20, \h21>>,
    <<\h1e, \h1f, \h1c, \h1d, \h1a, \h1b, \h18, \h19>>,
    <<\h16, \h17, \h14, \h15, \h12, \h13, \h10, \h11>>,
    <<\h0e, \h0f, \h0c, \h0d, \h0a, \h0b, \h08, \h09>>,
    <<\h06, \h07, \h04, \h05, \h02, \h03, \h00, \h01>>)

mm512_bswap_64(v) == shuffle_epi8(v, Ctl512_bswap_64)

mm512_bswap_32(v) == shuffle_epi8(v, Ctl512_bswap_32)

mm512_bswap_16(v) == shuffle_epi8(v, Ctl512_bswap_16)

\* The byte swap the harness calls for module n and lane width lw.
BswapCall(t, n, lw, v) ==
  CASE n = 128 /\ lw = 64 -> mm128_bswap_64(t, v)
    [] n = 128 /\ lw = 32 -> mm128_bswap_32(t, v)
    [] n = 128 /\ lw = 16 -> mm128_bswap_16(t, v)
    [] n = 512 /\ lw = 64 -> mm512_bswap_64(v)
    [] n = 512 /\ lw = 32 -> mm512_bswap_32(v)
    [] n = 512 /\ lw = 16 -> mm512_bswap_16(v)

(***************************************************************************)
(* Block byte swap: 8 consecutive vectors from s to d.                     *)
(***************************************************************************)
BlockSlots == 8

\* The right-hand side of one slot statement: the index shuffle by the
\* block's ctl (SSSE3 and up, 512 bit), or the single-vector swap (SSE2).
SlotSwap(op, x) ==
  IF op.kind = "shuffle" THEN shuffle_epi8(x, op.ctl)
  ELSE IF op.lw = 64 THEN mm128_bswap_64(op.t, x)
  ELSE mm128_bswap_32(op.t, x)

ByShuffle(ctl) == [kind |-> "shuffle", ctl |-> ctl]

BySwap(t, lw) == [kind |-> "bswap", t |-> t, lw |-> lw]

\* The unrolled statements executed twice over: the same block where source
\* and destination are apart, the block swapped back where they are one.
RECURSIVE BlockFromTwice(_, _, _, _, _)
BlockFromTwice(mem, d, s, op, i) ==
  IF i = 2 * BlockSlots THEN mem
  ELSE BlockFromTwice(
         [mem EXCEPT ![d + (i % BlockSlots) + 1] =
                       SlotSwap(op, mem[s + (i % BlockSlots) + 1])],
         d, s, op, i + 1)

\* The unrolled statements  d[i] = swap( s[i] ),  i = 0 .. 7, executed in
\* order on the memory mem; d and s are slot offsets into mem.
RECURSIVE BlockFrom(_, _, _, _, _)
BlockFrom(mem, d, s, op, i) ==
  IF i = BlockSlots THEN mem
  ELSE BlockFrom([mem EXCEPT ![d + i + 1] = SlotSwap(op, mem[s + i + 1])],
                 d, s, op, i + 1)

CtlBlock128_bswap_64(t) ==
  m128_const_64(t, <<\h08, \h09, \h0a, \h0b, \h0c, \h0d, \h0e, \h0f>>,
                   <<\h00, \h01, \h02, \h03, \h04, \h05, \h06, \h07>>)

CtlBlock128_bswap_32(t) ==
  m128_const_64(t, <<\h0c, \h0d, \h0e, \h0f, \h08, \h09, \h0a, \h0b>>,
                   <<\h04, \h05, \h06, \h07, \h00, \h01, \h02, \h03>>)

\* A 64 bit block swap carrying the 32 bit swap of the macro next to it.
mm128_block_bswap_64_as32(t, mem, d, s) ==
  IF Has(t, "SSSE3")
  THEN LET ctl == CtlBlock128_bswap_32(t)
       IN  BlockFrom(mem, d, s, ByShuffle(ctl), 0)
  ELSE BlockFrom(mem, d, s, BySwap(t, 32), 0)

mm128_block_bswap_64(t, mem, d, s) ==
  IF Has(t, "SSSE3")
  THEN LET ctl == CtlBlock128_bswap_64(t)
       IN  BlockFrom(mem, d, s, ByShuffle(ctl), 0)
  ELSE BlockFrom(mem, d, s, BySwap(t, 64), 0)

mm128_block_bswap_32(t, mem, d, s) ==
  IF Has(t, "SSSE3")
  THEN LET ctl == CtlBlock128_bswap_32(t)
       IN  BlockFrom(mem, d, s, ByShuffle(ctl), 0)
  ELSE BlockFrom(mem, d, s, BySwap(t, 32), 0)

CtlBlock512_bswap_64 ==
  m512_const_64(
    <<\h38, \h39, \h3a, \h3b, \h3c, \h3d, \h3e, \h3f>>,
    <<\h30, \h31, \h32, \h33, \h34, \h35, \h36, \h37>>,
    <<\h28, \h29, \h2a, \h2b, \h2c, \h2d, \h2e, \h2f>>,
    <<\h20, \h21, \h22, \h23, \h24, \h25, \h26, \h27>>,
    <<\h18, \h19, \h1a, \h1b, \h1c, \h1d, \h1e, \h1f>>,
    <<\h10, \h11, \h12, \h13, \h14, \h15, \h16, \h17>>,
    <<\h08, \h09, \h0a, \h0b, \h0c, \h0d, \h0e, \h0f>>,
    <<\h00, \h01, \h02, \h03, \h04, \h05, \h06, \h07>>)

CtlBlock512_bswap_32 ==
  m512_const_64(
    <<\h3c, \h3d, \h3e, \h3f, \h38, \h39, \h3a, \h3b>>,
    <<\h34, \h35, \h36, \h37, \h30, \h31, \h32, \h33>>,
    <<\h2c, \h2d, \h2e, \h2f, \h28, \h29, \h2a, \h2b>>,
    <<\h24, \h25, \h26, \h27, \h20, \h21, \h22, \h23>>,
    <<\h1c, \h1d, \h1e, \h1f, \h18, \h19, \h1a, \h1b>>,
    <<\h14, \h15, \h16, \h17, \h10, \h11, \h12, \h13>>,
    <<\h0c, \h0d, \h0e, \h0f, \h08, \h09, \h0a, \h0b>>,
    <<\h04, \h05, \h06, \h07, \h00, \h01, \h02, \h03>>)

mm512_block_bswap_64(mem, d, s) ==
  BlockFrom(mem, d, s, ByShuffle(CtlBlock512_bswap_64), 0)

mm512_block_bswap_32(mem, d, s) ==
  BlockFrom(mem, d, s, ByShuffle(CtlBlock512_bswap_32), 0)

BlockBswapCall(t, n, lw, mem, d, s) ==
  CASE n = 128 /\ lw = 64 -> mm128_block_bswap_64(t, mem, d, s)
    [] n = 128 /\ lw = 32 -> mm128_block_bswap_32(t, mem, d, s)
    [] n = 512 /\ lw = 64 -> mm512_block_bswap_64(mem, d, s)
    [] n = 512 /\ lw = 32 -> mm512_block_bswap_32(mem, d, s)

(***************************************************************************)
(* Shuffle-rotation of the elements of a vector across all lanes.          *)
(***************************************************************************)

\* _mm_shuffle_epi32( v, imm ): dword i is the dword selected by field i of
\* the immediate.
shuffle_epi32(v, imm) ==
  [j \in 1..Len(v) |->
     v[32 * Field2(imm, (j - 1) \div 32) + ((j - 1) % 32) + 1]]

\* valign: the ew bit elements of a:b (b low) shifted right by imm masked to
\* the element count of one vector; the low vector of the result.
alignr_epi(ew, a, b, imm) ==
  LET cat == b \o a
      sh  == imm % (Len(b) \div ew)
  IN  [j \in 1..Len(b) |-> cat[j + ew * sh]]

alignr_epi64(a, b, imm) == alignr_epi(64, a, b, imm)

alignr_epi32(a, b, imm) == alignr_epi(32, a, b, imm)

\* _mm_alignr_epi8( a, b, n ): the 32 bytes a:b shifted right by n bytes,
\* zeros shifted in; the low 16 bytes of the result.
alignr_epi8(a, b, n) ==
  LET cat == b \o a
  IN  [j \in 1..Len(b) |-> IF j + 8 * n <= Len(cat) THEN cat[j + 8 * n] ELSE 0]

\* _mm512_permutexvar_epi16( idx, v ): word i is the word of v selected by
\* the low 5 bits of word i of idx.
permutexvar_epi16(idx, v) ==
  [j \in 1..Len(v) |->
     LET i == (j - 1) \div 16
     IN  v[16 * (ByteOf(idx, 2 * i) % 32) + ((j - 1) % 16) + 1]]

mm128_swap_64(v) == shuffle_epi32(v, \h4e)

mm128_shuflr_64(v) == mm128_swap_64(v)

mm128_shufll_64(v) == mm128_swap_64(v)

mm128_shuflr_32(v) == shuffle_epi32(v, \h39)

mm128_shufll_32(v) == shuffle_epi32(v, \h93)

\* Defined under SSSE3 only.
mm128_shuflr_x8(v, n) == alignr_epi8(v, v, n)

mm512_swap_256(v) == alignr_epi64(v, v, 4)

\* A value that is a vector of bits, as opposed to the designator below.
IsVec(x) == Len(x) > 1

\*   #define mm512_shuflr_256( v ) mm512_swap_256
\* The macro takes v and expands to the bare name of the function: it makes
\* no call, and what it leaves is the function designator, not a vector.
mm512_shuflr_256(v) == <<"mm512_swap_256">>

mm512_shufll_256(v) == <<"mm512_swap_256">>

mm512_shuflr_128(v) == alignr_epi64(v, v, 2)

mm512_shufll_128(v) == alignr_epi64(v, v, 6)

mm512_shuflr_64(v) == alignr_epi64(v, v, 1)

mm512_shufll_64(v) == alignr_epi64(v, v, 7)

mm512_shuflr_32(v) == alignr_epi32(v, v, 1)

mm512_shufll_32(v) == alignr_epi32(v, v, 15)

mm512_shuflr_x64(v, n) == alignr_epi64(v, v, n)

\* The 32 bit generic shuffle carrying the 64 bit align of the function
\* above it.
mm512_shuflr_x32_as64(v, n) == alignr_epi64(v, v, n)

mm512_shuflr_x32(v, n) == alignr_epi32(v, v, n)

Idx512_shuflr_16 ==
  m512_const_64(
    <<\h00, \h00, \h00, \h1F, \h00, \h1E, \h00, \h1D>>,
    <<\h00, \h1C, \h00, \h1B, \h00, \h1A, \h00, \h19>>,
    <<\h00, \h18, \h00, \h17, \h00, \h16, \h00, \h15>>,
    <<\h00, \h14, \h00, \h13, \h00, \h12, \h00, \h11>>,
    <<\h00, \h10, \h00, \h0F, \h00, \h0E, \h00, \h0D>>,
    <<\h00, \h0C, \h00, \h0B, \h00, \h0A, \h00, \h09>>,
    <<\h00, \h08, \h00, \h07, \h00, \h06, \h00, \h05>>,
    <<\h00, \h04, \h00, \h03, \h00, \h02, \h00, \h01>>)

mm512_shuflr_16(v) == permutexvar_epi16(Idx512_shuflr_16, v)

Idx512_shufll_16 ==
  m512_const_64(
    <<\h00, \h1E, \h00, \h1D, \h00, \h1C, \h00, \h1B>>,
    <<\h00, \h1A, \h00, \h19, \h00, \h18, \h00, \h17>>,
    <<\h00, \h16, \h00, \h15, \h00, \h14, \h00, \h13>>,
    <<\h00, \h12, \h00, \h11, \h00, \h10, \h00, \h0F>>,
    <<\h00, \h0E, \h00, \h0D, \h00, \h0C, \h00, \h0B>>,
    <<\h00, \h0A, \h00, \h09, \h00, \h08, \h00, \h07>>,
    <<\h00, \h06, \h00, \h05, \h00, \h04, \h00, \h03>>,
    <<\h00, \h02, \h00, \h01, \h00, \h00, \h00, \h1F>>)

mm512_shufll_16(v) == permutexvar_epi16(Idx512_shufll_16, v)

\* _mm512_permutexvar_epi32( idx, v ): dword i is the dword of v selected
\* by the low 4 bits of dword i of idx.
permutexvar_epi32(idx, v) ==
  [j \in 1..Len(v) |->
     LET i == (j - 1) \div 32
     IN  v[32 * (ByteOf(idx, 4 * i) % 16) + ((j - 1) % 32) + 1]]

\* Rotate elements within 256 bit lanes of 512 bit vector.
Idx512_shuflr256_32 ==
  m512_const_64(
    <<\h00, \h00, \h00, \h08, \h00, \h00, \h00, \h0f>>,
    <<\h00, \h00, \h00, \h0e, \h00, \h00, \h00, \h0d>>,
    <<\h00, \h00, \h00, \h0c, \h00, \h00, \h00, \h0b>>,
    <<\h00, \h00, \h00, \h0a, \h00, \h00, \h00, \h09>>,
    <<\h00, \h00, \h00, \h00, \h00, \h00, \h00, \h07>>,
    <<\h00, \h00, \h00, \h06, \h00, \h00, \h00, \h05>>,
    <<\h00, \h00, \h00, \h04, \h00, \h00, \h00, \h03>>,
    <<\h00, \h00, \h00, \h02, \h00, \h00, \h00, \h01>>)

mm512_shuflr256_32(v) == permutexvar_epi32(Idx512_shuflr256_32, v)

Idx512_shufll256_32 ==
  m512_const_64(
    <<\h00, \h00, \h00, \h0e, \h00, \h00, \h00, \h0d>>,
    <<\h00, \h00, \h00, \h0c, \h00, \h00, \h00, \h0b>>,
    <<\h00, \h00, \h00, \h0a, \h00, \h00, \h00, \h09>>,
    <<\h00, \h00, \h00, \h08, \h00, \h00, \h00, \h0f>>,
    <<\h00, \h00, \h00, \h06, \h00, \h00, \h00, \h05>>,
    <<\h00, \h00, \h00, \h04, \h00, \h00, \h00, \h03>>,
    <<\h00, \h00, \h00, \h02, \h00, \h00, \h00, \h01>>,
    <<\h00, \h00, \h00, \h00, \h00, \h00, \h00, \h07>>)

mm512_shufll256_32(v) == permutexvar_epi32(Idx512_shufll256_32, v)

Idx512_shuflr256_16 ==
  m512_const_64(
    <<\h00, \h10, \h00, \h01, \h00, \h1e, \h00, \h1d>>,
    <<\h00, \h1c, \h00, \h1b, \h00, \h1a, \h00, \h19>>,
    <<\h00, \h18, \h00, \h17, \h00, \h16, \h00, \h15>>,
    <<\h00, \h14, \h00, \h13, \h00, \h12, \h00, \h11>>,
    <<\h00, \h00, \h00, \h0f, \h00, \h0e, \h00, \h0d>>,
    <<\h00, \h0c, \h00, \h0b, \h00, \h0a, \h00, \h09>>,
    <<\h00, \h08, \h00, \h07, \h00, \h06, \h00, \h05>>,
    <<\h00, \h04, \h00, \h03, \h00, \h02, \h00, \h01>>)

mm512_shuflr256_16(v) == permutexvar_epi16(Idx512_shuflr256_16, v)

Idx512_shufll256_16 ==
  m512_const_64(
    <<\h00, \h1e, \h00, \h1d, \h00, \h1c, \h00, \h1b>>,
    <<\h00, \h1a, \h00, \h19, \h00, \h18, \h00, \h17>>,
    <<\h00, \h16, \h00, \h15, \h00, \h14, \h00, \h13>>,
    <<\h00, \h12, \h00, \h11, \h00, \h10, \h00, \h1f>>,
    <<\h00, \h0e, \h00, \h0d, \h00, \h0c, \h00, \h0b>>,
    <<\h00, \h0a, \h00, \h09, \h00, \h08, \h00, \h07>>,
    <<\h00, \h06, \h00, \h05, \h00, \h04, \h00, \h03>>,
    <<\h00, \h02, \h00, \h01, \h00, \h00, \h00, \h0f>>)

mm512_shufll256_16(v) == permutexvar_epi16(Idx512_shufll256_16, v)

\* The shuffles within 256 bit lanes the harness calls at granularity g.
\* _mm512_permutex_epi64: within each 256 bit lane, 64 bit element i is the
\* element of that lane that field i of the immediate names.
permutex_epi64(v, imm) ==
  [j \in 1..Len(v) |->
     LET i == (j - 1) \div 64
     IN  v[256 * (i \div 4) + 64 * Field2(imm, i % 4) + ((j - 1) % 64) + 1]]

mm512_swap256_128(v) == permutex_epi64(v, \h4e)

mm512_shuflr256_128(v) == mm512_swap256_128(v)

mm512_shufll256_128(v) == mm512_swap256_128(v)

mm512_shuflr256_64(v) == permutex_epi64(v, \h39)

mm512_shufll256_64(v) == permutex_epi64(v, \h93)

mm512_shuflr256_8(v) ==
  shuffle_epi8(v, m512_const_64(
    <<\h20, \h3f, \h3e, \h3d, \h3c, \h3b, \h3a, \h39>>,
    <<\h38, \h37, \h36, \h35, \h34, \h33, \h32, \h31>>,
    <<\h30, \h2f, \h2e, \h2d, \h2c, \h2b, \h2a, \h29>>,
    <<\h28, \h27, \h26, \h25, \h24, \h23, \h22, \h21>>,
    <<\h00, \h1f, \h1e, \h1d, \h1c, \h1b, \h1a, \h19>>,
    <<\h18, \h17, \h16, \h15, \h14, \h13, \h12, \h11>>,
    <<\h10, \h0f, \h0e, \h0d, \h0c, \h0b, \h0a, \h09>>,
    <<\h08, \h07, \h06, \h05, \h04, \h03, \h02, \h01>>))

mm512_shufll256_8(v) ==
  shuffle_epi8(v, m512_const_64(
    <<\h3e, \h3d, \h3c, \h3b, \h3a, \h39, \h38, \h37>>,
    <<\h36, \h35, \h34, \h33, \h32, \h31, \h30, \h2f>>,
    <<\h2e, \h2d, \h2c, \h2b, \h2a, \h29, \h28, \h27>>,
    <<\h26, \h25, \h24, \h23, \h22, \h21, \h20, \h3f>>,
    <<\h1e, \h1d, \h1c, \h1b, \h1a, \h19, \h18, \h17>>,
    <<\h16, \h15, \h14, \h13, \h12, \h11, \h10, \h0f>>,
    <<\h0e, \h0d, \h0c, \h0b, \h0a, \h09, \h08, \h07>>,
    <<\h06, \h05, \h04, \h03, \h02, \h01, \h00, \h1f>>))

Shuflr256Call(g, v) ==
  CASE g = 128 -> mm512_shuflr256_128(v)
    [] g = 64 -> mm512_shuflr256_64(v)
    [] g = 32 -> mm512_shuflr256_32(v)
    [] g = 16 -> mm512_shuflr256_16(v)
    [] g = 8 -> mm512_shuflr256_8(v)

Shufll256Call(g, v) ==
  CASE g = 128 -> mm512_shufll256_128(v)
    [] g = 64 -> mm512_shufll256_64(v)
    [] g = 32 -> mm512_shufll256_32(v)
    [] g = 16 -> mm512_shufll256_16(v)
    [] g = 8 -> mm512_shufll256_8(v)

\* The fifth and sixth constants of the table are written with a '.'
\* between them where the ',' of the argument list belongs; the table is
\* taken as the eight constants it spells.
mm512_shuflr_8(v) ==
  shuffle_epi8(v, m512_const_64(
    <<\h00, \h3F, \h3E, \h3D, \h3C, \h3B, \h3A, \h39>>,
    <<\h38, \h37, \h36, \h35, \h34, \h33, \h32, \h31>>,
    <<\h30, \h2F, \h2E, \h2D, \h2C, \h2B, \h2A, \h29>>,
    <<\h28, \h27, \h26, \h25, \h24, \h23, \h22, \h21>>,
    <<\h20, \h1F, \h1E, \h1D, \h1C, \h1B, \h1A, \h19>>,
    <<\h18, \h17, \h16, \h15, \h14, \h13, \h12, \h11>>,
    <<\h10, \h0F, \h0E, \h0D, \h0C, \h0B, \h0A, \h09>>,
    <<\h08, \h07, \h06, \h05, \h04, \h03, \h02, \h01>>))

\* Likewise the first and second constants of this table.
mm512_shufll_8(v) ==
  shuffle_epi8(v, m512_const_64(
    <<\h3E, \h3D, \h3C, \h3B, \h3A, \h39, \h38, \h37>>,
    <<\h36, \h35, \h34, \h33, \h32, \h31, \h30, \h2F>>,
    <<\h2E, \h2D, \h2C, \h2B, \h2A, \h29, \h28, \h27>>,
    <<\h26, \h25, \h24, \h23, \h22, \h21, \h20, \h1F>>,
    <<\h1E, \h1D, \h1C, \h1B, \h1A, \h19, \h18, \h17>>,
    <<\h16, \h15, \h14, \h13, \h12, \h11, \h10, \h0F>>,
    <<\h0E, \h0D, \h0C, \h0B, \h0A, \h09, \h08, \h07>>,
    <<\h06, \h05, \h04, \h03, \h02, \h01, \h00, \h3F>>))

\* The single-step shuffles the harness calls for module n and granularity g.
ShuflrCall(n, g, v) ==
  CASE n = 128 /\ g = 64  -> mm128_shuflr_64(v)
    [] n = 128 /\ g = 32  -> mm128_shuflr_32(v)
    [] n = 512 /\ g = 256 -> mm512_shuflr_256(v)
    [] n = 512 /\ g = 128 -> mm512_shuflr_128(v)
    [] n = 512 /\ g = 64  -> mm512_shuflr_64(v)
    [] n = 512 /\ g = 32  -> mm512_shuflr_32(v)
    [] n = 512 /\ g = 16  -> mm512_shuflr_16(v)
    [] n = 512 /\ g = 8   -> mm512_shuflr_8(v)

ShufllCall(n, g, v) ==
  CASE n = 128 /\ g = 64  -> mm128_shufll_64(v)
    [] n = 128 /\ g = 32  -> mm128_shufll_32(v)
    [] n = 512 /\ g = 256 -> mm512_shufll_256(v)
    [] n = 512 /\ g = 128 -> mm512_shufll_128(v)
    [] n = 512 /\ g = 64  -> mm512_shufll_64(v)
    [] n = 512 /\ g = 32  -> mm512_shufll_32(v)
    [] n = 512 /\ g = 16  -> mm512_shufll_16(v)
    [] n = 512 /\ g = 8   -> mm512_shufll_8(v)

\* The generic shuffles by a count.
ShuflrXCall(n, g, v, k) ==
  CASE n = 128 /\ g = 8  -> mm128_shuflr_x8(v, k)
    [] n = 512 /\ g = 64 -> mm512_shuflr_x64(v, k)
    [] n = 512 /\ g = 32 -> mm512_shuflr_x32(v, k)

(***************************************************************************)
(* Ternary logic, 512 bit module.                                          *)
(***************************************************************************)

\* _mm512_ternarylogic_epi64( a, b, c, imm ): every bit of the result is
\* the bit of the 8 bit truth table imm at index a*4 + b*2 + c, taken from
\* the bits of a, b, c at the same position (the third operand is spelled
\* cc here).
ternarylogic_epi64(a, b, cc, imm) ==
  [j \in 1..Len(a) |-> BitOfInt(imm, 4 * a[j] + 2 * b[j] + cc[j])]

mm512_xor3(a, b, cc) == ternarylogic_epi64(a, b, cc, \h96)

mm512_and3(a, b, cc) == ternarylogic_epi64(a, b, cc, \h80)

mm512_or3(a, b, cc) == ternarylogic_epi64(a, b, cc, \hfe)

mm512_xorand(a, b, cc) == ternarylogic_epi64(a, b, cc, \h78)

mm512_andxor(a, b, cc) == ternarylogic_epi64(a, b, cc, \h60)

mm512_xoror(a, b, cc) == ternarylogic_epi64(a, b, cc, \h1e)

\* The table of a ^ ( b & ~c ): the operands of the andnot exchanged.
mm512_xorandnot_b4(a, b, cc) == ternarylogic_epi64(a, b, cc, \hb4)

mm512_xorandnot(a, b, cc) == ternarylogic_epi64(a, b, cc, \hd2)

mm512_orand(a, b, cc) == ternarylogic_epi64(a, b, cc, \hf8)

(***************************************************************************)
(* Two-input logic and NOT, 512 bit module: the ternary logic with an      *)
(* operand repeated.                                                       *)
(***************************************************************************)
mm512_not(x) == ternarylogic_epi64(x, x, x, 1)

mm512_nor(a, b) == ternarylogic_epi64(a, b, b, \h01)

mm512_xnor(a, b) == ternarylogic_epi64(a, b, b, \h81)

mm512_nand(a, b) == ternarylogic_epi64(a, b, b, \hef)

(***************************************************************************)
(* Diagonal blending.                                                      *)
(***************************************************************************)

\* Bit i of a blend mask.
MaskBit(k, i) == (k \div (2 ^ i)) % 2

\* _mm512_mask_blend_epi64 / _epi32( k, a, b ), _mm_blend_epi32 / _epi16
\* ( a, b, imm ): ew bit element i is taken from b when bit i of the mask is
\* set and from a otherwise.
mask_blend_epi(ew, k, a, b) ==
  [j \in 1..Len(a) |->
     IF MaskBit(k, (j - 1) \div ew) = 1 THEN b[j] ELSE a[j]]

mask_blend_epi64(k, a, b) == mask_blend_epi(64, k, a, b)

mask_blend_epi32(k, a, b) == mask_blend_epi(32, k, a, b)

blend_epi32(a, b, imm) == mask_blend_epi(32, imm, a, b)

blend_epi16(a, b, imm) == mask_blend_epi(16, imm, a, b)

\* The macro text has no ',' between the two inner blends of its last
\* argument; it is taken as the two arguments it spells.
mm512_diagonal_64(v7, v6, v5, v4, v3, v2, v1, v0) ==
  mask_blend_epi64(\h0f,
    mask_blend_epi64(\h30,
      mask_blend_epi64(\h40, v7, v6),
      mask_blend_epi64(\h40, v5, v4)),
    mask_blend_epi64(\h03,
      mask_blend_epi64(\h04, v3, v2),
      mask_blend_epi64(\h01, v1, v0)))

\* Blend 4 32 bit elements from 4 vectors.  The body of the macro names
\* s3, s2, s1, s0 where its parameters are v3, v2, v1, v0: the expansion
\* reads the variables of those names in the scope of the call (scope) and
\* makes no use of its arguments.  The outer blend is written mm_blend_epi32
\* / mm_blend_epi16, without the leading '_' of the intrinsic, and is taken
\* as the intrinsic.
mm128_diagonal_32(t, scope, v3, v2, v1, v0) ==
  IF Has(t, "AVX2")
  THEN blend_epi32(blend_epi32(scope.s3, scope.s2, \h4),
                   blend_epi32(scope.s1, scope.s0, \h1), \h3)
  ELSE blend_epi16(blend_epi16(scope.s3, scope.s2, \h30),
                   blend_epi16(scope.s1, scope.s0, \h03), \h0f)

\* Blend 4 32 bit elements from each 128 bit lane.
mm512_diagonal128_32(v3, v2, v1, v0) ==
  mask_blend_epi32(\h3333,
    mask_blend_epi32(\h4444, v3, v2),
    mask_blend_epi32(\h1111, v1, v0))

(***************************************************************************)
(* Two 128 bit vectors shuffle-rotated as one 256 bit vector.              *)
(***************************************************************************)

\* _mm_srli_si128( v, n ): the whole vector shifted right by n bytes, zeros
\* shifted in.
srli_si128(v, n) ==
  [j \in 1..Len(v) |-> IF j + 8 * n <= Len(v) THEN v[j + 8 * n] ELSE 0]

\* _mm_slli_si128( v, n ): the whole vector shifted left by n bytes.
slli_si128(v, n) ==
  [j \in 1..Len(v) |-> IF j - 8 * n >= 1 THEN v[j - 8 * n] ELSE 0]

\* _mm_or_si128.
or_si128(a, b) == [j \in 1..Len(a) |-> IF a[j] + b[j] > 0 THEN 1 ELSE 0]

\* The SSSE3 form with the operands of the align exchanged.
mm128_shufl2r_64_exchanged(t, v1, v2) ==
  IF Has(t, "SSSE3") THEN alignr_epi8(v1, v2, 8)
  ELSE or_si128(srli_si128(v1, 8), slli_si128(v2, 8))

mm128_shufl2r_64(t, v1, v2) ==
  IF Has(t, "SSSE3") THEN alignr_epi8(v2, v1, 8)
  ELSE or_si128(srli_si128(v1, 8), slli_si128(v2, 8))

mm128_shufl2l_64(t, v1, v2) ==
  IF Has(t, "SSSE3") THEN alignr_epi8(v1, v2, 8)
  ELSE or_si128(slli_si128(v1, 8), srli_si128(v2, 8))

\* The SSSE3 procedure without its temporary: the second statement reads
\* the v1 the first has written.
mm128_vror256_64_not(t, v1, v2) ==
  IF Has(t, "SSSE3")
  THEN LET v1a == alignr_epi8(v2, v1, 8)
           v2a == alignr_epi8(v1a, v2, 8)
       IN  <<v1a, v2a>>
  ELSE LET tt  == or_si128(srli_si128(v1, 8), slli_si128(v2, 8))
           v2a == or_si128(srli_si128(v2, 8), slli_si128(v1, 8))
       IN  <<tt, v2a>>

\* The procedure macros: the three statements in order, each reading the
\* values its operands hold when it runs; the pair <<v1, v2>> they leave.
\* (The temporary t of the source is spelled tt.)
mm128_vror256_64(t, v1, v2) ==
  IF Has(t, "SSSE3")
  THEN LET tt  == alignr_epi8(v1, v2, 8)
           v1a == alignr_epi8(v2, v1, 8)
           v2a == tt
       IN  <<v1a, v2a>>
  ELSE LET tt  == or_si128(srli_si128(v1, 8), slli_si128(v2, 8))
           v2a == or_si128(srli_si128(v2, 8), slli_si128(v1, 8))
           v1a == tt
       IN  <<v1a, v2a>>

mm128_vrol256_64(t, v1, v2) ==
  IF Has(t, "SSSE3")
  THEN LET tt  == alignr_epi8(v1, v2, 8)
           v2a == alignr_epi8(v2, v1, 8)
           v1a == tt
       IN  <<v1a, v2a>>
  ELSE LET tt  == or_si128(slli_si128(v1, 8), srli_si128(v2, 8))
           v2a == or_si128(slli_si128(v2, 8), srli_si128(v1, 8))
           v1a == tt
       IN  <<v1a, v2a>>

(***************************************************************************)
(* Broadcast, insert and extract of 32 bit integers; the 64 bit constants  *)
(* of the 512 bit module.  A 32 bit integer is the tuple of its 4 bytes,   *)
(* most significant first, as a 64 bit one is the tuple of its 8.          *)
(***************************************************************************)
LE32(d) == [j \in 1..4 |-> d[5 - j]]

\* mm128_mov32_128: movd, the integer in the low 32 bits, the rest zero.
mm128_mov32_128(n) == FromBytes(LE32(n) \o ZeroBytes(12))

\* u32_mov128_32: movd, the low 32 bits of the vector as an integer.
u32_mov128_32(a) == <<ByteOf(a, 3), ByteOf(a, 2), ByteOf(a, 1), ByteOf(a, 0)>>

\* The broadcast with the immediate 0x44 of m128_const1_64.
m128_const1_32_as64(i) == shuffle_epi32(mm128_mov32_128(i), \h44)

m128_const1_32(i) == shuffle_epi32(mm128_mov32_128(i), \h00)

\* _mm_insert_ps( a, b, imm ): 32 bit element imm[7:6] of b is copied to
\* element imm[5:4] of a, then the elements whose bit of imm[3:0] is set are
\* zeroed.
insert_ps(a, b, imm) ==
  LET s == (imm \div 64) % 4
      d == (imm \div 16) % 4
  IN  [j \in 1..Len(a) |->
         LET e == (j - 1) \div 32
         IN  IF MaskBit(imm % 16, e) = 1 THEN 0
             ELSE IF e = d THEN b[32 * s + ((j - 1) % 32) + 1]
             ELSE a[j]]

\* mm128_xim_32( v1, v2, c ): the control byte is the low 8 bits of c.
mm128_xim_32(v1, v2, ctl) == insert_ps(v1, v2, ctl % 256)

\* Defined under SSE4.1 only.
mm128_extract_32(v, k) == u32_mov128_32(mm128_xim_32(v, v, k * 64))

\* m512_const4_64 with the high half in the order of the arguments.
m512_const4_64_rev(i3, i2, i1, i0) ==
  FromBytes(LE(i0) \o LE(i1) \o LE(i2) \o LE(i3)
              \o LE(i3) \o LE(i2) \o LE(i1) \o LE(i0))

\* m512_const4_64( i3, i2, i1, i0 ): u64[k] = u64[k + 4] = ik.
m512_const4_64(i3, i2, i1, i0) ==
  FromBytes(LE(i0) \o LE(i1) \o LE(i2) \o LE(i3)
              \o LE(i0) \o LE(i1) \o LE(i2) \o LE(i3))

(***************************************************************************)
(* Memory functions: n counts vectors.  mem is the memory as a sequence of *)
(* vector slots and dst, src are slot offsets into it.                     *)
(***************************************************************************)
m128_zero == Zero(128)

m512_zero == Zero(512)

\*   for ( int i = 0; i < n; i++ ) dst[i] = a;
RECURSIVE SetLoop(_, _, _, _, _)
SetLoop(mem, dst, a, n, i) ==
  IF i < n THEN SetLoop([mem EXCEPT ![dst + i + 1] = a], dst, a, n, i + 1)
  ELSE mem

\* The loop running while i <= n.
RECURSIVE SetLoopInclusive(_, _, _, _, _)
SetLoopInclusive(mem, dst, a, n, i) ==
  IF i <= n
  THEN SetLoopInclusive([mem EXCEPT ![dst + i + 1] = a], dst, a, n, i + 1)
  ELSE mem

\*   for ( int i = 0; i < n; i ++ ) dst[i] = src[i];
RECURSIVE CopyLoop(_, _, _, _, _)
CopyLoop(mem, dst, src, n, i) ==
  IF i < n
  THEN CopyLoop([mem EXCEPT ![dst + i + 1] = mem[src + i + 1]],
                dst, src, n, i + 1)
  ELSE mem

memset_zero_128(mem, dst, n) == SetLoop(mem, dst, m128_zero, n, 0)

memset_128_inclusive(mem, dst, a, n) == SetLoopInclusive(mem, dst, a, n, 0)

memset_128(mem, dst, a, n) == SetLoop(mem, dst, a, n, 0)

memcpy_128(mem, dst, src, n) == CopyLoop(mem, dst, src, n, 0)

memset_zero_512(mem, dst, n) == SetLoop(mem, dst, m512_zero, n, 0)

memset_512(mem, dst, a, n) == SetLoop(mem, dst, a, n, 0)

memcpy_512(mem, dst, src, n) == CopyLoop(mem, dst, src, n, 0)

(***************************************************************************)
(* The block operations of the 128 bit module run by threads, one slot     *)
(* access at a time.                                                       *)
(***************************************************************************)

\* The element-wise swap the block byte swap of lane width lw applies to a
\* slot at tier t: the index shuffle by ctl of the macros (SSSE3 and up),
\* the single-vector swap of the functions (SSE2).
BlockSwapOp(t, lw) ==
  IF Has(t, "SSSE3")
  THEN ByShuffle(IF lw = 64 THEN CtlBlock128_bswap_64(t)
                 ELSE CtlBlock128_bswap_32(t))
  ELSE BySwap(t, lw)

\* A slot statement of a block operation reads src[i] (the memsets read no
\* memory: a and zero are values) and then writes dst[i]: the number of
\* memory accesses of a call on n slots.
StepsOf(op, n) ==
  CASE op \in {"memset", "memset_zero"} -> IF n > 0 THEN n ELSE 0
    [] op = "memcpy" -> IF n > 0 THEN 2 * n ELSE 0
    [] op \in {"block_bswap_64", "block_bswap_32"} -> 2 * BlockSlots

\* Whether access number k (from 0) of op is the read of a slot.
IsLoad(op, k) == op \notin {"memset", "memset_zero"} /\ k % 2 = 0

\* The slot index i of access k.
SlotOf(op, k) == IF op \in {"memset", "memset_zero"} THEN k ELSE k \div 2

\* The value the statement stores: a, zero, the slot read, or its swap.
Stored(op, t, a, x) ==
  CASE op = "memset" -> a
    [] op = "memset_zero" -> m128_zero
    [] op = "memcpy" -> x
    [] op = "block_bswap_64" -> SlotSwap(BlockSwapOp(t, 64), x)
    [] op = "block_bswap_32" -> SlotSwap(BlockSwapOp(t, 32), x)

\* The whole call, run alone.
RunAlone(op, t, mem, dst, src, a, n) ==
  CASE op = "memset" -> memset_128(mem, dst, a, n)
    [] op = "memset_zero" -> memset_zero_128(mem, dst, n)
    [] op = "memcpy" -> memcpy_128(mem, dst, src, n)
    [] op = "block_bswap_64" -> mm128_block_bswap_64(t, mem, dst, src)
    [] op = "block_bswap_32" -> mm128_block_bswap_32(t, mem, dst, src)

(***************************************************************************)
(* Rotations of the bytes within 64 or 32 bit lanes: a byte shuffle where  *)
(* SSSE3 is there and AVX512VL is not, the bit rotation otherwise.         *)
(***************************************************************************)

mm128_shuflr64_24(t, v) ==
  IF Has(t, "SSSE3") /\ ~Has(t, "AVX512")
  THEN shuffle_epi8(v, set_epi64x(
         <<\h0a, \h09, \h08, \h0f, \h0e, \h0d, \h0c, \h0b>>,
         <<\h02, \h01, \h00, \h07, \h06, \h05, \h04, \h03>>))
  ELSE mm128_ror_64(t, v, 24)

mm128_shuflr64_16(t, v) ==
  IF Has(t, "SSSE3") /\ ~Has(t, "AVX512")
  THEN shuffle_epi8(v, set_epi64x(
         <<\h09, \h08, \h0f, \h0e, \h0d, \h0c, \h0b, \h0a>>,
         <<\h01, \h00, \h07, \h06, \h05, \h04, \h03, \h02>>))
  ELSE mm128_ror_64(t, v, 16)

mm128_swap32_16(t, v) ==
  IF Has(t, "SSSE3") /\ ~Has(t, "AVX512")
  THEN shuffle_epi8(v, set_epi64x(
         <<\h0d, \h0c, \h0f, \h0e, \h09, \h08, \h0b, \h0a>>,
         <<\h05, \h04, \h07, \h06, \h01, \h00, \h03, \h02>>))
  ELSE mm128_ror_32(t, v, 16)

\* The table of a rotation to the left by 8 bits, where the right one belongs.
mm128_shuflr32_8_left(t, v) ==
  IF Has(t, "SSSE3") /\ ~Has(t, "AVX512")
  THEN shuffle_epi8(v, set_epi64x(
         <<\h0e, \h0d, \h0c, \h0f, \h0a, \h09, \h08, \h0b>>,
         <<\h06, \h05, \h04, \h07, \h02, \h01, \h00, \h03>>))
  ELSE mm128_ror_32(t, v, 8)

mm128_shuflr32_8(t, v) ==
  IF Has(t, "SSSE3") /\ ~Has(t, "AVX512")
  THEN shuffle_epi8(v, set_epi64x(
         <<\h0c, \h0f, \h0e, \h0d, \h08, \h0b, \h0a, \h09>>,
         <<\h04, \h07, \h06, \h05, \h00, \h03, \h02, \h01>>))
  ELSE mm128_ror_32(t, v, 8)

(***************************************************************************)
(* Shifts of the elements of the whole 512 bit vector with zero fill.      *)
(* mm512_shiftl_256 expands to the bare name mm512_shifr_256, which is no  *)
(* vector: the name is kept as the value.                                  *)
(***************************************************************************)

mm512_shiftr_256(v) == alignr_epi64(m512_zero, v, 4)

mm512_shiftl_256(v) == <<"mm512_shifr_256">>

mm512_shiftr_128(v) == alignr_epi64(m512_zero, v, 2)

mm512_shiftl_128(v) == alignr_epi64(v, m512_zero, 6)

mm512_shiftr_64(v) == alignr_epi64(m512_zero, v, 1)

mm512_shiftl_64(v) == alignr_epi64(v, m512_zero, 7)

mm512_shiftr_32(v) == alignr_epi32(m512_zero, v, 1)

mm512_shiftl_32(v) == alignr_epi32(v, m512_zero, 15)

(***************************************************************************)
(* Insertion of an integer into an element and zeroing of elements by a    *)
(* mask, both by mm128_xim_32 (SSE4.1).                                    *)
(***************************************************************************)

\* The element number in the source selector, where the destination
\* selector belongs.
mm128_insert_32_src(v, i, k) == mm128_xim_32(v, mm128_mov32_128(i), k * 64)

mm128_insert_32(v, i, k) == mm128_xim_32(v, mm128_mov32_128(i), k * 16)

mm128_mask_32(v, m) == mm128_xim_32(v, v, m)

(***************************************************************************)
(* The harness: registers, and the step every operation takes.             *)
(***************************************************************************)
Reg == vals[Len(vals)]

\* Operation name applied; the register file becomes r.
Apply(name, r) ==
  /\ Len(hist) < MaxOps
  /\ hist' = Append(hist, name)
  /\ vals' = Append(vals, r)
  /\ UNCHANGED <<tier, size, w, c, sp, dp>>

\* The tiers module n can be built for: the 512 bit module exists only
\* under AVX512F/VL/DQ/BW.
TiersOf(n) == IF n = 512 THEN {"AVX512"} ELSE {Tiers[i] : i \in 1..Len(Tiers)}

Load(j) ==
  /\ hist = << >>
  /\ vals = << <<TestVec(size, j), TestVec(size, j + 1)>> >>

(***************************************************************************)
(* Specification SpecRot: the bit rotations.                               *)
(***************************************************************************)
InitRot ==
  /\ size \in {128, 512}
  /\ tier \in TiersOf(size)
  /\ w \in (IF size = 128 THEN {16, 32, 64} ELSE {32, 64})
  /\ c \in 0..(w + CountOver)
  /\ sp = 0 /\ dp = 0
  /\ \E j \in 0..(NumVec - 1) : Load(j)

Ror == Apply("ror", <<RorCall(tier, size, w, Reg[1], c), Reg[2]>>)

Rol == Apply("rol", <<RolCall(tier, size, w, Reg[1], c), Reg[2]>>)

RolVar ==
  /\ size = 128 /\ w = 32
  /\ Apply("rol_var", <<mm128_rol_var_32(Reg[1], c), Reg[2]>>)

Rorx2 ==
  /\ size = 128 /\ w \in {32, 64}
  /\ Apply("rorx2", Rorx2Call(tier, w, Reg[2], Reg[1], c))

Rolx2 ==
  /\ size = 128 /\ w \in {32, 64}
  /\ Apply("rolx2", Rolx2Call(tier, w, Reg[2], Reg[1], c))

NextRot == Ror \/ Rol \/ RolVar \/ Rorx2 \/ Rolx2

SpecRot == InitRot /\ [][NextRot]_vars

(***************************************************************************)
(* Claims about the bit rotations (under SpecRot).                         *)
(***************************************************************************)

\* C1: for every lane width and every amount k in [0, w), rotating right by
\* k and then left by k returns the original vector, in both modules and at
\* every tier, k = 0 included.
C1_RotateRoundTrip ==
  \A m \in 1..(Len(hist) - 1) :
    (hist[m] = "ror" /\ hist[m + 1] = "rol" /\ c < w)
      => vals[m + 2][1] = vals[m][1]

\* C1 witness: at the SSE2 tier a rotate right by 0 < k < w changed the
\* vector and the rotate left that followed restored it.
C1_Witness ==
  /\ hist = <<"ror", "rol">> /\ tier = "SSE2" /\ c \in 1..(w - 1)
  /\ vals[2][1] # vals[1][1]
  /\ vals[3][1] = vals[1][1]

\* C2: without native rotate, the shift-or emulation of mm128_ror_w and
\* mm128_rol_w yields in every lane exactly the bits of the native (true)
\* w bit rotation by k, for every k in [0, w).
C2_EmulationIsRotation ==
  \A m \in 1..Len(hist) :
    (size = 128 /\ (~Has(tier, "AVX512") \/ w = 16) /\ c < w)
      => /\ hist[m] = "ror" => vals[m + 1][1] = ror_epi(w, vals[m][1], c)
         /\ hist[m] = "rol" => vals[m + 1][1] = rol_epi(w, vals[m][1], c)

\* C2 witness: the SSE2 emulation rotated 32 bit lanes right by 0 < k < 32.
C2_Witness ==
  /\ hist = <<"ror">> /\ tier = "SSE2" /\ size = 128 /\ w = 32
  /\ c \in 1..31
  /\ vals[2][1] # vals[1][1]
  /\ vals[2][1] = ror_epi(32, vals[1][1], c)

\* C3: the rotation amount is taken modulo the lane width: at every tier a
\* 128 bit rotate by k gives what the same rotate by k mod w gives, k >= w
\* included.
C3_CountModuloWidth ==
  \A m \in 1..Len(hist) :
    size = 128 =>
      /\ hist[m] = "ror" =>
           vals[m + 1][1] = RorCall(tier, size, w, vals[m][1], c % w)
      /\ hist[m] = "rol" =>
           vals[m + 1][1] = RolCall(tier, size, w, vals[m][1], c % w)
      /\ hist[m] = "rol_var" =>
           vals[m + 1][1] = mm128_rol_var_32(vals[m][1], c % w)

\* What does hold of the code for C3: the native rotates reduce the count,
\* and the emulation agrees with them up to and including k = w.
C3_ModuloWhereNativeOrInRange ==
  \A m \in 1..Len(hist) :
    (size = 512 \/ (Has(tier, "AVX512") /\ w # 16) \/ c <= w) =>
      /\ hist[m] = "ror" =>
           vals[m + 1][1] = RorCall(tier, size, w, vals[m][1], c % w)
      /\ hist[m] = "rol" =>
           vals[m + 1][1] = RolCall(tier, size, w, vals[m][1], c % w)

\* C4: a double-buffered rotate of (v1, v0) by c in [0, w) leaves in v0 and
\* in v1 what the single-vector rotate of the same name and tier gives for
\* the old v0 and the old v1.
C4_DoubleBufferedIsTwoRotates ==
  \A m \in 1..Len(hist) :
    c < w =>
      /\ hist[m] = "rorx2" =>
           vals[m + 1] = <<RorCall(tier, size, w, vals[m][1], c),
                           RorCall(tier, size, w, vals[m][2], c)>>
      /\ hist[m] = "rolx2" =>
           vals[m + 1] = <<RolCall(tier, size, w, vals[m][1], c),
                           RolCall(tier, size, w, vals[m][2], c)>>

\* What does hold of the code for C4: below AVX512VL the double-buffered
\* macros rotate both variables.
C4_DoubleBufferedBelowAVX512 ==
  \A m \in 1..Len(hist) :
    (c < w /\ ~Has(tier, "AVX512")) =>
      /\ hist[m] = "rorx2" =>
           vals[m + 1] = <<RorCall(tier, size, w, vals[m][1], c),
                           RorCall(tier, size, w, vals[m][2], c)>>
      /\ hist[m] = "rolx2" =>
           vals[m + 1] = <<RolCall(tier, size, w, vals[m][1], c),
                           RolCall(tier, size, w, vals[m][2], c)>>

(***************************************************************************)
(* Specification SpecSwap: the endian byte swaps, single vector and block. *)
(* The caller holds two blocks of 8 vectors; v is the first vector of the  *)
(* source block.                                                           *)
(***************************************************************************)
LoadBlock(j) ==
  /\ hist = << >>
  /\ vals = << [i \in 1..(2 * BlockSlots) |->
                  TestVec(size, 2 * BlockSlots * j + i)] >>

\* (s, d) pointer pairs: disjoint blocks either way round, and d = s.
PtrPairs == {<<0, BlockSlots>>, <<BlockSlots, 0>>, <<0, 0>>}

InitSwap ==
  /\ size \in {128, 512}
  /\ tier \in TiersOf(size)
  /\ w \in {16, 32, 64}
  /\ c = 0
  /\ \E pr \in PtrPairs : sp = pr[1] /\ dp = pr[2]
  /\ \E j \in 0..(NumVec - 1) : LoadBlock(j)

Bswap ==
  Apply("bswap", [Reg EXCEPT ![sp + 1] = BswapCall(tier, size, w, Reg[sp + 1])])

BlockBswap ==
  /\ w \in {32, 64}
  /\ Apply("block_bswap", BlockBswapCall(tier, size, w, Reg, dp, sp))

NextSwap == Bswap \/ BlockBswap

SpecSwap == InitSwap /\ [][NextSwap]_vars

(***************************************************************************)
(* Claims about the byte swaps (under SpecSwap).                           *)
(***************************************************************************)

Mirror(lw, b) ==
  LET eb == lw \div 8
  IN  (b \div eb) * eb + (eb - 1 - (b % eb))

BswapSSE2(lw, v) ==
  CASE lw = 64 -> mm128_bswap_64_SSE2(v)
    [] lw = 32 -> mm128_bswap_32_SSE2(v)
    [] lw = 16 -> mm128_bswap_16_SSE2(v)

BswapSSSE3(t, lw, v) ==
  CASE lw = 64 -> mm128_bswap_64_SSSE3(t, v)
    [] lw = 32 -> mm128_bswap_32_SSSE3(t, v)
    [] lw = 16 -> mm128_bswap_16_SSSE3(t, v)

C7_BlockIsSlotwiseBswap ==
  \A m \in 1..Len(hist) :
    (hist[m] = "block_bswap" /\ sp # dp) =>
      \A i \in 1..BlockSlots :
        /\ vals[m + 1][dp + i] = BswapCall(tier, size, w, vals[m][sp + i])
        /\ vals[m + 1][sp + i] = vals[m][sp + i]

\* C7 witness: a 64 bit block swap between disjoint blocks changed the last
\* destination slot.
C7_Witness ==
  /\ hist = <<"block_bswap">> /\ sp # dp /\ w = 64 /\ tier = "SSSE3"
  /\ vals[2][dp + BlockSlots] # vals[1][dp + BlockSlots]
  /\ vals[2][dp + BlockSlots]
       = mm128_bswap_64(tier, vals[1][sp + BlockSlots])

(***************************************************************************)
(* Specification SpecShuf: the shuffle-rotations across all lanes.         *)
(* w is the granularity g of the shuffle and c the count of the generic    *)
(* shuffles.                                                               *)
(***************************************************************************)

\* The granularities module n offers a generic shuffle-by-count for.
HasShuflrX(t, n, g) ==
  \/ n = 128 /\ g = 8 /\ Has(t, "SSSE3")
  \/ n = 512 /\ g \in {64, 32}

\* The granularities module n offers a right and a left single step for.
HasShufl(n, g) ==
  \/ n = 128 /\ g \in {64, 32}
  \/ n = 512 /\ g \in {256, 128, 64, 32, 16, 8}

InitShuf ==
  /\ size \in {128, 512}
  /\ tier \in TiersOf(size)
  /\ w \in {g \in {256, 128, 64, 32, 16, 8} :
              HasShufl(size, g) \/ HasShuflrX(tier, size, g)}
  /\ c \in (IF HasShuflrX(tier, size, w)
            THEN 0..((size \div w) + CountOver) ELSE {0})
  /\ sp = 0 /\ dp = 0
  /\ \E j \in 0..(NumVec - 1) : Load(j)

Shuflr ==
  /\ HasShufl(size, w)
  /\ Apply("shuflr", <<ShuflrCall(size, w, Reg[1]), Reg[2]>>)

Shufll ==
  /\ HasShufl(size, w)
  /\ Apply("shufll", <<ShufllCall(size, w, Reg[1]), Reg[2]>>)

ShuflrX ==
  /\ HasShuflrX(tier, size, w)
  /\ IsVec(Reg[1])
  /\ Apply("shuflr_x", <<ShuflrXCall(size, w, Reg[1], c), Reg[2]>>)

\* The granularities with a permute steered by an index table within 256
\* bit lanes.
HasShufl256(n, g) == n = 512 /\ g \in {128, 64, 32, 16, 8}

Shuflr256 ==
  /\ HasShufl256(size, w)
  /\ Apply("shuflr256", <<Shuflr256Call(w, Reg[1]), Reg[2]>>)

Shufll256 ==
  /\ HasShufl256(size, w)
  /\ Apply("shufll256", <<Shufll256Call(w, Reg[1]), Reg[2]>>)

NextShuf == Shuflr \/ Shufll \/ ShuflrX \/ Shuflr256 \/ Shufll256

SpecShuf == InitShuf /\ [][NextShuf]_vars

(***************************************************************************)
(* Claims about the shuffle-rotations (under SpecShuf).                    *)
(***************************************************************************)

\* C8: for every whole-vector shuffle pair of one granularity, shuffle right
\* by one element and then shuffle left by one element gives back the
\* vector: mm128 at g in {64, 32}, mm512 at g in {256, 128, 64, 32, 16, 8}.
C8_ShuflRoundTrip ==
  \A m \in 1..(Len(hist) - 1) :
    (hist[m] = "shuflr" /\ hist[m + 1] = "shufll")
      => vals[m + 2][1] = vals[m][1]

\* C8 at every granularity but 256: there the round trip is the identity.
C8_ShuflRoundTripBelow256 ==
  \A m \in 1..(Len(hist) - 1) :
    (hist[m] = "shuflr" /\ hist[m + 1] = "shufll" /\ w # 256)
      => /\ vals[m + 2][1] = vals[m][1]
         /\ vals[m + 1][1] # vals[m][1]

\* C8 at granularity 256: what the pair of macros leaves is not a vector.
C8_Shufl256IsNoVector ==
  \A m \in 1..Len(hist) :
    (hist[m] \in {"shuflr", "shufll"} /\ w = 256) => ~IsVec(vals[m + 1][1])

\* The single right step of module n at granularity g applied k times to v.
RECURSIVE Times(_, _, _, _)
Times(n, g, v, k) ==
  IF k = 0 THEN v ELSE Times(n, g, ShuflrCall(n, g, v), k - 1)

\* Rotation of the bytes of v right by one byte.
RotrByte(v) == [j \in 1..Len(v) |-> v[((j + 7) % Len(v)) + 1]]

RECURSIVE RotrBytes(_, _)
RotrBytes(v, k) == IF k = 0 THEN v ELSE RotrBytes(RotrByte(v), k - 1)

\* C9: the generic shuffles agree with the repeated single step:
\* mm512_shuflr_x64(v, n) is mm512_shuflr_64 n times for n in [0, 8),
\* mm512_shuflr_x32(v, n) is mm512_shuflr_32 n times for n in [0, 16),
\* mm128_shuflr_x8(v, n) is the rotation right by one byte n times for n in
\* [0, 16); and a count equal to the number of elements gives v back.
C9_ShuflrXIsRepeatedStep ==
  \A m \in 1..Len(hist) :
    hist[m] = "shuflr_x" =>
      LET v == vals[m][1]
          r == vals[m + 1][1]
      IN  /\ (c < size \div w /\ size = 512) => r = Times(size, w, v, c)
          /\ (c < size \div w /\ size = 128) => r = RotrBytes(v, c)
          /\ c = size \div w => r = v

\* C9 witness: mm512_shuflr_x32 by 0 < n < 16 moved the elements of v to
\* where n single steps put them.
C9_Witness ==
  /\ hist = <<"shuflr_x">> /\ size = 512 /\ w = 32 /\ c \in 2..15
  /\ vals[2][1] # vals[1][1]
  /\ vals[2][1] = Times(512, 32, vals[1][1], c)

(***************************************************************************)
(* Specification SpecLogic: the three-input combinators of the 512 bit     *)
(* module.  The registers are a, b, c; a combinator leaves its result in   *)
(* a.                                                                      *)
(***************************************************************************)
Ones(n) == [j \in 1..n |-> 1]

\* The values of operand k: all zeros, all ones, and byte pattern k.
LogicInputs(k) == {Zero(512), Ones(512), TestVec(512, k)}

InitLogic ==
  /\ size = 512 /\ tier = "AVX512" /\ w = 64 /\ c = 0 /\ sp = 0 /\ dp = 0
  /\ hist = << >>
  /\ \E x \in LogicInputs(0), y \in LogicInputs(1), z \in LogicInputs(2) :
       vals = << <<x, y, z>> >>

Xor3 == Apply("xor3", <<mm512_xor3(Reg[1], Reg[2], Reg[3]), Reg[2], Reg[3]>>)

And3 == Apply("and3", <<mm512_and3(Reg[1], Reg[2], Reg[3]), Reg[2], Reg[3]>>)

Or3 == Apply("or3", <<mm512_or3(Reg[1], Reg[2], Reg[3]), Reg[2], Reg[3]>>)

XorAnd ==
  Apply("xorand", <<mm512_xorand(Reg[1], Reg[2], Reg[3]), Reg[2], Reg[3]>>)

AndXor ==
  Apply("andxor", <<mm512_andxor(Reg[1], Reg[2], Reg[3]), Reg[2], Reg[3]>>)

XorOr ==
  Apply("xoror", <<mm512_xoror(Reg[1], Reg[2], Reg[3]), Reg[2], Reg[3]>>)

XorAndNot ==
  Apply("xorandnot",
        <<mm512_xorandnot(Reg[1], Reg[2], Reg[3]), Reg[2], Reg[3]>>)

OrAnd ==
  Apply("orand", <<mm512_orand(Reg[1], Reg[2], Reg[3]), Reg[2], Reg[3]>>)

NextLogic ==
  Xor3 \/ And3 \/ Or3 \/ XorAnd \/ AndXor \/ XorOr \/ XorAndNot \/ OrAnd

SpecLogic == InitLogic /\ [][NextLogic]_vars

(***************************************************************************)
(* Claims about the combinators (under SpecLogic).                         *)
(***************************************************************************)
BNot(x) == 1 - x

BAnd(x, y) == x * y

BOr(x, y) == x + y - x * y

BXor(x, y) == (x + y) % 2

\* The boolean function the name and the comment of a combinator state.
Stated(name, x, y, z) ==
  CASE name = "xor3"      -> BXor(x, BXor(y, z))
    [] name = "and3"      -> BAnd(x, BAnd(y, z))
    [] name = "or3"       -> BOr(x, BOr(y, z))
    [] name = "xorand"    -> BXor(x, BAnd(y, z))
    [] name = "andxor"    -> BAnd(x, BXor(y, z))
    [] name = "xoror"     -> BXor(x, BOr(y, z))
    [] name = "xorandnot" -> BXor(x, BAnd(BNot(y), z))
    [] name = "orand"     -> BOr(x, BAnd(y, z))

\* The index values a*4 + b*2 + c met over the bit positions of a, b, c.
Combos(r) == {4 * r[1][j] + 2 * r[2][j] + r[3][j] : j \in 1..512}

\* C10: every three-input combinator gives, in every bit position, the
\* boolean function its name states of the bits of a, b, c at that position
\* (xor3, and3, or3, xorand, andxor, xoror, xorandnot, orand), whatever the
\* combination of the three input bits.
C10_TernaryIsStatedFunction ==
  \A m \in 1..Len(hist) :
    \A j \in 1..512 :
      vals[m + 1][1][j] =
        Stated(hist[m], vals[m][1][j], vals[m][2][j], vals[m][3][j])

\* C10 witness: mm512_xorandnot met all 8 combinations of input bits in one
\* call and gave a ^ ( ~b & c ) in every position.
C10_Witness ==
  /\ hist = <<"xorandnot">>
  /\ Combos(vals[1]) = 0..7
  /\ \A j \in 1..512 :
       vals[2][1][j] = BXor(vals[1][1][j], BAnd(BNot(vals[1][2][j]), vals[1][3][j]))

(***************************************************************************)
(* Specification SpecLogic2: the two-input combinators and NOT of the 512  *)
(* bit module.  The registers are a, b; an operation leaves its result in  *)
(* a.                                                                      *)
(***************************************************************************)
InitLogic2 ==
  /\ size = 512 /\ tier = "AVX512" /\ w = 64 /\ c = 0 /\ sp = 0 /\ dp = 0
  /\ hist = << >>
  /\ \E x \in LogicInputs(0), y \in LogicInputs(1) : vals = << <<x, y>> >>

Not == Apply("not", <<mm512_not(Reg[1]), Reg[2]>>)

Nor == Apply("nor", <<mm512_nor(Reg[1], Reg[2]), Reg[2]>>)

Xnor == Apply("xnor", <<mm512_xnor(Reg[1], Reg[2]), Reg[2]>>)

Nand == Apply("nand", <<mm512_nand(Reg[1], Reg[2]), Reg[2]>>)

NextLogic2 == Not \/ Nor \/ Xnor \/ Nand

SpecLogic2 == InitLogic2 /\ [][NextLogic2]_vars

(***************************************************************************)
(* Claims about the two-input combinators (under SpecLogic2).              *)
(***************************************************************************)

\* The boolean function the name of a two-input combinator states.
Stated2(name, x, y) ==
  CASE name = "not"  -> BNot(x)
    [] name = "nor"  -> BNot(BOr(x, y))
    [] name = "xnor" -> BNot(BXor(x, y))
    [] name = "nand" -> BNot(BAnd(x, y))

\* C11: mm512_nor, mm512_xnor, mm512_nand and mm512_not give in every bit
\* position ~(a | b), ~(a ^ b), ~(a & b) and ~x of the bits of their
\* operands, for all combinations of the input bits.
C11_TwoInputIsStatedFunction ==
  \A m \in 1..Len(hist) :
    \A j \in 1..512 :
      vals[m + 1][1][j] = Stated2(hist[m], vals[m][1][j], vals[m][2][j])

\* C11 without mm512_nand: nor, xnor and not are the functions they state.
C11_NorXnorNotAreStated ==
  \A m \in 1..Len(hist) :
    hist[m] # "nand" =>
      \A j \in 1..512 :
        vals[m + 1][1][j] = Stated2(hist[m], vals[m][1][j], vals[m][2][j])

\* C11, what mm512_nand is: table 0xef read at a*4 + b*2 + b is ~a | b,
\* which differs from ~(a & b) wherever a = 1.
C11_NandIsNotAOrB ==
  \A m \in 1..Len(hist) :
    hist[m] = "nand" =>
      \A j \in 1..512 :
        vals[m + 1][1][j] = BOr(BNot(vals[m][1][j]), vals[m][2][j])

(***************************************************************************)
(* Specification SpecDiag: the diagonal blends.  w is the element width.   *)
(* Registers 1..8 are the arguments v0..v7 of the 64 bit blend.  For the   *)
(* 32 bit blends registers 1..4 are the arguments v0..v3 and registers     *)
(* 5..8 the variables s0..s3 of the calling scope.  A blend leaves its     *)
(* result in register 1.                                                   *)
(***************************************************************************)

\* The patterns argument i is drawn from; every (pattern, element) pair
\* carries its own value.
DiagInputs(n, i) == {TestVec(n, NumVec * i + k) : k \in 0..(NumVec - 1)}

\* The 8 arguments of the 64 bit blend.
Load8 ==
  \E x0 \in DiagInputs(size, 0), x1 \in DiagInputs(size, 1),
     x2 \in DiagInputs(size, 2), x3 \in DiagInputs(size, 3),
     x4 \in DiagInputs(size, 4), x5 \in DiagInputs(size, 5),
     x6 \in DiagInputs(size, 6), x7 \in DiagInputs(size, 7) :
    vals = << <<x0, x1, x2, x3, x4, x5, x6, x7>> >>

\* The 4 arguments of a 32 bit blend, and the scope of the call: either the
\* arguments are the caller's s0..s3 themselves, or s0..s3 are other
\* variables of the caller.
Load4 ==
  \E x0 \in DiagInputs(size, 0), x1 \in DiagInputs(size, 1),
     x2 \in DiagInputs(size, 2), x3 \in DiagInputs(size, 3) :
    \/ vals = << <<x0, x1, x2, x3, x0, x1, x2, x3>> >>
    \/ vals = << <<x0, x1, x2, x3,
                   TestVec(size, NumVec * 4), TestVec(size, NumVec * 5),
                   TestVec(size, NumVec * 6), TestVec(size, NumVec * 7)>> >>

\* mm128_diagonal_32 is defined under AVX2 and under SSE4.1 only.
InitDiag ==
  /\ size \in {128, 512}
  /\ tier \in {t \in TiersOf(size) : Has(t, "SSE4_1")}
  /\ w \in (IF size = 512 THEN {64, 32} ELSE {32})
  /\ c = 0 /\ sp = 0 /\ dp = 0
  /\ hist = << >>
  /\ IF w = 64 THEN Load8 ELSE Load4

Diagonal64 ==
  /\ size = 512 /\ w = 64
  /\ Apply("diagonal_64",
           [Reg EXCEPT ![1] = mm512_diagonal_64(Reg[8], Reg[7], Reg[6], Reg[5],
                                                Reg[4], Reg[3], Reg[2], Reg[1])])

\* The variables s0..s3 of the scope of a call.
Scope == [s0 |-> Reg[5], s1 |-> Reg[6], s2 |-> Reg[7], s3 |-> Reg[8]]

Diagonal32 ==
  /\ size = 128 /\ w = 32
  /\ Apply("diagonal_32",
           [Reg EXCEPT ![1] = mm128_diagonal_32(tier, Scope, Reg[4], Reg[3],
                                                Reg[2], Reg[1])])

Diagonal128_32 ==
  /\ size = 512 /\ w = 32
  /\ Apply("diagonal128_32",
           [Reg EXCEPT ![1] = mm512_diagonal128_32(Reg[4], Reg[3],
                                                   Reg[2], Reg[1])])

NextDiag == Diagonal64 \/ Diagonal32 \/ Diagonal128_32

SpecDiag == InitDiag /\ [][NextDiag]_vars

(***************************************************************************)
(* Claims about the diagonal blends (under SpecDiag).                      *)
(***************************************************************************)

\* The ew bit element i of v.
Elem(ew, v, i) == SubSeq(v, ew * i + 1, ew * (i + 1))

\* C12: mm512_diagonal_64( v7, .., v0 ) selects the diagonal: for every i in
\* [0, 8), 64 bit element i of the result is element i of vi, so every
\* output position has one source and every input gives one element.
C12_Diagonal64SelectsDiagonal ==
  \A m \in 1..Len(hist) :
    hist[m] = "diagonal_64" =>
      \A i \in 0..7 : Elem(64, vals[m + 1][1], i) = Elem(64, vals[m][i + 1], i)

\* C12 at the elements other than 4: these come from the diagonal.
C12_Diagonal64But4 ==
  \A m \in 1..Len(hist) :
    hist[m] = "diagonal_64" =>
      \A i \in (0..7) \ {4} :
        Elem(64, vals[m + 1][1], i) = Elem(64, vals[m][i + 1], i)

\* C12 at element 4: it is element 4 of v5, which gives two elements, and
\* v4 gives none.
C12_Diagonal64Element4IsOfV5 ==
  \A m \in 1..Len(hist) :
    hist[m] = "diagonal_64" =>
      /\ Elem(64, vals[m + 1][1], 4) = Elem(64, vals[m][6], 4)
      /\ Elem(64, vals[m + 1][1], 4) # Elem(64, vals[m][5], 4)

\* C13: the 32 bit diagonal blends take element i from input i: element i
\* of mm128_diagonal_32( v3, v2, v1, v0 ) is element i of vi for i in
\* [0, 4), under AVX2 and under SSE4.1 alike, and mm512_diagonal128_32 does
\* the same in each of the four 128 bit lanes.
C13_Diagonal32SelectsDiagonal ==
  \A m \in 1..Len(hist) :
    hist[m] \in {"diagonal_32", "diagonal128_32"} =>
      \A i \in 0..((size \div 32) - 1) :
        Elem(32, vals[m + 1][1], i) = Elem(32, vals[m][(i % 4) + 1], i)

\* C13 for the 512 bit module: mm512_diagonal128_32 selects the diagonal of
\* its arguments in every lane.
C13_Diagonal128_32SelectsDiagonal ==
  \A m \in 1..Len(hist) :
    hist[m] = "diagonal128_32" =>
      \A i \in 0..15 :
        Elem(32, vals[m + 1][1], i) = Elem(32, vals[m][(i % 4) + 1], i)

\* C13 for the 128 bit module: the blend cascades select the diagonal of
\* s3..s0 of the calling scope, whatever the arguments are, and the AVX2
\* and the SSE4.1 cascades give the same bits.
C13_Diagonal32IsOfScope ==
  \A m \in 1..Len(hist) :
    hist[m] = "diagonal_32" =>
      LET r == vals[m]
          sc == [s0 |-> r[5], s1 |-> r[6], s2 |-> r[7], s3 |-> r[8]]
      IN  /\ \A i \in 0..3 :
               Elem(32, vals[m + 1][1], i) = Elem(32, r[i + 5], i)
          /\ mm128_diagonal_32("AVX2", sc, r[4], r[3], r[2], r[1])
               = mm128_diagonal_32("SSE4_1", sc, r[4], r[3], r[2], r[1])

(***************************************************************************)
(* Specification SpecPair: the two-input shuffle-rotates of the 128 bit    *)
(* module.  Registers 1, 2 are v1, v2 and register 3 takes the value of    *)
(* the function macros.                                                    *)
(***************************************************************************)
InitPair ==
  /\ size = 128
  /\ tier \in TiersOf(size)
  /\ w = 64 /\ c = 0 /\ sp = 0 /\ dp = 0
  /\ hist = << >>
  /\ \E j \in 0..(NumVec - 1), k \in 0..(NumVec - 1) :
       vals = << <<TestVec(size, j), TestVec(size, NumVec + k), Zero(size)>> >>

Shufl2r ==
  Apply("shufl2r", [Reg EXCEPT ![3] = mm128_shufl2r_64(tier, Reg[1], Reg[2])])

Shufl2l ==
  Apply("shufl2l", [Reg EXCEPT ![3] = mm128_shufl2l_64(tier, Reg[1], Reg[2])])

Vror256 ==
  LET r == mm128_vror256_64(tier, Reg[1], Reg[2])
  IN  Apply("vror256", <<r[1], r[2], Reg[3]>>)

Vrol256 ==
  LET r == mm128_vrol256_64(tier, Reg[1], Reg[2])
  IN  Apply("vrol256", <<r[1], r[2], Reg[3]>>)

NextPair == Shufl2r \/ Shufl2l \/ Vror256 \/ Vrol256

SpecPair == InitPair /\ [][NextPair]_vars

(***************************************************************************)
(* Claims about the two-input shuffle-rotates (under SpecPair).            *)
(***************************************************************************)

\* The 256 bit value with v1 as its high and v2 as its low half.
Cat256(v1, v2) == v2 \o v1

\* x rotated right by k bits: bit j of the result is bit j + k of x.
RotR(x, k) == [j \in 1..Len(x) |-> x[((j - 1 + k) % Len(x)) + 1]]

RotL(x, k) == RotR(x, Len(x) - k)

HighHalf(x) == SubSeq(x, (Len(x) \div 2) + 1, Len(x))

\* C14: with {v1 (high), v2 (low)} as one 256 bit value, mm128_shufl2r_64
\* is the high 128 bits of that value rotated right by 64 bits (high qword
\* = low qword of v2, low qword = high qword of v1) and mm128_shufl2l_64 the
\* high 128 bits of it rotated left by 64 bits (high qword = low qword of
\* v1, low qword = high qword of v2); v1 and v2 are left as they were; the
\* SSSE3 and the SSE2 forms give the same bits.
C14_Shufl2IsHighOfDoubleRotate ==
  \A m \in 1..Len(hist) :
    LET v1 == vals[m][1]
        v2 == vals[m][2]
        r  == vals[m + 1][3]
    IN  /\ hist[m] = "shufl2r" =>
             /\ r = HighHalf(RotR(Cat256(v1, v2), 64))
             /\ Elem(64, r, 1) = Elem(64, v2, 0)
             /\ Elem(64, r, 0) = Elem(64, v1, 1)
             /\ mm128_shufl2r_64("SSE2", v1, v2)
                  = mm128_shufl2r_64("SSSE3", v1, v2)
        /\ hist[m] = "shufl2l" =>
             /\ r = HighHalf(RotL(Cat256(v1, v2), 64))
             /\ Elem(64, r, 1) = Elem(64, v1, 0)
             /\ Elem(64, r, 0) = Elem(64, v2, 1)
             /\ mm128_shufl2l_64("SSE2", v1, v2)
                  = mm128_shufl2l_64("SSSE3", v1, v2)
        /\ hist[m] \in {"shufl2r", "shufl2l"} =>
             vals[m + 1][1] = v1 /\ vals[m + 1][2] = v2

\* C14 witness: at the SSE2 tier mm128_shufl2r_64 gave a vector that is
\* neither input, made of the high qword of v1 and the low qword of v2.
C14_Witness ==
  /\ hist = <<"shufl2r">> /\ tier = "SSE2"
  /\ vals[2][3] \notin {vals[1][1], vals[1][2], vals[1][3]}
  /\ vals[2][3] = HighHalf(RotR(Cat256(vals[1][1], vals[1][2]), 64))

\* C15: the in-place rotates equal both halves computed from the original
\* operands: after mm128_vror256_64, v1 = shufl2r(old v1, old v2) and v2 =
\* shufl2r(old v2, old v1); after mm128_vrol256_64, v1 = shufl2l(old v1,
\* old v2) and v2 = shufl2l(old v2, old v1); the SSSE3 and the SSE2 forms
\* agree, and vrol256 undoes vror256.
C15_InPlaceIsBothHalves ==
  \A m \in 1..Len(hist) :
    LET v1 == vals[m][1]
        v2 == vals[m][2]
    IN  /\ hist[m] = "vror256" =>
             /\ vals[m + 1][1] = mm128_shufl2r_64(tier, v1, v2)
             /\ vals[m + 1][2] = mm128_shufl2r_64(tier, v2, v1)
             /\ mm128_vror256_64("SSE2", v1, v2)
                  = mm128_vror256_64("SSSE3", v1, v2)
        /\ hist[m] = "vrol256" =>
             /\ vals[m + 1][1] = mm128_shufl2l_64(tier, v1, v2)
             /\ vals[m + 1][2] = mm128_shufl2l_64(tier, v2, v1)
             /\ mm128_vrol256_64("SSE2", v1, v2)
                  = mm128_vrol256_64("SSSE3", v1, v2)
        /\ (m < Len(hist) /\ hist[m] = "vror256" /\ hist[m + 1] = "vrol256")
             => vals[m + 2][1] = v1 /\ vals[m + 2][2] = v2

\* C15 witness: at an SSSE3 tier vror256 changed both vectors and the
\* vrol256 after it restored them.
C15_Witness ==
  /\ hist = <<"vror256", "vrol256">> /\ tier = "SSSE3"
  /\ vals[2][1] # vals[1][1] /\ vals[2][2] # vals[1][2]
  /\ vals[3][1] = vals[1][1] /\ vals[3][2] = vals[1][2]

(***************************************************************************)
(* Specification SpecConst: broadcast and read back of a 32 bit integer    *)
(* (128 bit module; c is the element read) and the 64 bit constants of     *)
(* the 512 bit module.  Register 1 is the vector, register 2 the integer   *)
(* x, or the literals i0..i7, and register 3 the integer read back.        *)
(***************************************************************************)

\* The 32 bit integers broadcast: 0xDEADBEEF and one integer per pattern.
Ints32 ==
  {<<\hDE, \hAD, \hBE, \hEF>>}
    \cup {<<j, 128 + j, 255 - j, j + 1>> : j \in 0..(NumVec - 1)}

\* Literal k of pattern p: 8 bytes that no other literal of any pattern has.
Lit64(p, k) == [m \in 1..8 |-> (64 * p + 8 * k + m + 100) % 256]

InitConst ==
  /\ size \in {128, 512}
  /\ tier \in TiersOf(size)
  /\ sp = 0 /\ dp = 0
  /\ hist = << >>
  /\ \/ /\ size = 128 /\ w = 32
        /\ c \in 0..3
        /\ \E x \in Ints32, j \in 0..(NumVec - 1) :
             vals = << <<TestVec(128, j), x, <<0, 0, 0, 0>> >> >>
     \/ /\ size = 512 /\ w = 64
        /\ c = 0
        /\ \E p \in 0..(NumVec - 1), r \in 0..7 :
             vals = << <<TestVec(512, p),
                         [k \in 1..8 |-> Lit64(p, (k - 1 + r) % 8)],
                         <<0, 0, 0, 0>> >> >>

Const1_32 ==
  /\ size = 128
  /\ Apply("const1_32", [Reg EXCEPT ![1] = m128_const1_32(Reg[2])])

Extract32 ==
  /\ size = 128 /\ Has(tier, "SSE4_1")
  /\ Apply("extract_32", [Reg EXCEPT ![3] = mm128_extract_32(Reg[1], c)])

Const64 ==
  /\ size = 512
  /\ Apply("const_64",
           [Reg EXCEPT ![1] = m512_const_64(Reg[2][8], Reg[2][7], Reg[2][6],
                                            Reg[2][5], Reg[2][4], Reg[2][3],
                                            Reg[2][2], Reg[2][1])])

Const4_64 ==
  /\ size = 512
  /\ Apply("const4_64",
           [Reg EXCEPT ![1] = m512_const4_64(Reg[2][4], Reg[2][3],
                                             Reg[2][2], Reg[2][1])])

NextConst == Const1_32 \/ Extract32 \/ Const64 \/ Const4_64

SpecConst == InitConst /\ [][NextConst]_vars

(***************************************************************************)
(* Claims about the constants (under SpecConst).                           *)
(***************************************************************************)

\* The ew bit element i of v read as an integer: its bytes, most
\* significant first.
ReadInt(ew, v, i) ==
  [m \in 1..(ew \div 8) |-> ByteOf(v, (ew \div 8) * (i + 1) - m)]

\* C16: m128_const1_32( x ) is a vector whose four 32 bit lanes all equal x,
\* and mm128_extract_32 of it returns x at every index 0..3; in general
\* mm128_extract_32( v, c ) returns 32 bit element c of v.
C16_BroadcastAndExtract32 ==
  \A m \in 1..Len(hist) :
    /\ hist[m] = "const1_32" =>
         \A i \in 0..3 : ReadInt(32, vals[m + 1][1], i) = vals[m][2]
    /\ hist[m] = "extract_32" =>
         vals[m + 1][3] = ReadInt(32, vals[m][1], c)
    /\ (m < Len(hist) /\ hist[m] = "const1_32" /\ hist[m + 1] = "extract_32")
         => vals[m + 2][3] = vals[m][2]

\* C16 witness: 0xDEADBEEF was broadcast and read back from element 3.
C16_Witness ==
  /\ hist = <<"const1_32", "extract_32">> /\ c = 3
  /\ vals[1][2] = <<\hDE, \hAD, \hBE, \hEF>>
  /\ vals[3][3] = <<\hDE, \hAD, \hBE, \hEF>>

\* C17: m512_const_64( i7, .., i0 ) has literal ik in 64 bit lane k for
\* every k in 0..7, and m512_const4_64( i3, i2, i1, i0 ) is the vector
\* m512_const_64( i3, i2, i1, i0, i3, i2, i1, i0 ).
C17_Const64HoldsLiterals ==
  \A m \in 1..Len(hist) :
    LET lit == vals[m][2]
    IN  /\ hist[m] = "const_64" =>
             \A k \in 0..7 : ReadInt(64, vals[m + 1][1], k) = lit[k + 1]
        /\ hist[m] = "const4_64" =>
             /\ vals[m + 1][1] = m512_const_64(lit[4], lit[3], lit[2], lit[1],
                                               lit[4], lit[3], lit[2], lit[1])
             /\ \A k \in 0..7 :
                  ReadInt(64, vals[m + 1][1], k) = lit[(k % 4) + 1]

\* C17 witness: m512_const_64 built a vector of 8 different literals.
C17_Witness ==
  /\ hist = <<"const_64">>
  /\ \A k \in 0..7 : ReadInt(64, vals[2][1], k) = vals[1][2][k + 1]
  /\ Cardinality({ReadInt(64, vals[2][1], k) : k \in 0..7}) = 8

(***************************************************************************)
(* Specification SpecMem: the memory functions.  The registers are the     *)
(* slots of the memory, followed by the vector a; c is the count n, dp and *)
(* sp the offsets of dst and src.                                          *)
(***************************************************************************)
MaxN == 3

\* Two ranges of MaxN + 1 slots each: a range of n <= MaxN slots leaves at
\* least one slot after it.
RangeSlots == MaxN + 1

MemSlots == 2 * RangeSlots

\* (dst, src) pairs: disjoint ranges either way round, and dst = src.
MemPairs == {<<0, RangeSlots>>, <<RangeSlots, 0>>, <<0, 0>>}

InitMem ==
  /\ size \in {128, 512}
  /\ tier \in TiersOf(size)
  /\ w = 64
  /\ c \in (-1)..MaxN
  /\ \E pr \in MemPairs : dp = pr[1] /\ sp = pr[2]
  /\ hist = << >>
  /\ \E j \in 0..(NumVec - 1) :
       vals = << [i \in 1..(MemSlots + 1) |->
                    TestVec(size, (MemSlots + 1) * j + i)] >>

MemsetZero ==
  Apply("memset_zero",
        IF size = 128 THEN memset_zero_128(Reg, dp, c)
        ELSE memset_zero_512(Reg, dp, c))

Memset ==
  Apply("memset",
        IF size = 128 THEN memset_128(Reg, dp, Reg[MemSlots + 1], c)
        ELSE memset_512(Reg, dp, Reg[MemSlots + 1], c))

Memcpy ==
  Apply("memcpy",
        IF size = 128 THEN memcpy_128(Reg, dp, sp, c)
        ELSE memcpy_512(Reg, dp, sp, c))

NextMem == MemsetZero \/ Memset \/ Memcpy

SpecMem == InitMem /\ [][NextMem]_vars

(***************************************************************************)
(* Claims about the memory functions (under SpecMem).                      *)
(***************************************************************************)

\* The slots dst[0..n-1], as register indices.
DstRange == {dp + i + 1 : i \in 0..(c - 1)}

\* C18: the memory functions write n slots and no other: after memset every
\* dst[0..n-1] is a, after memset_zero every dst[0..n-1] is zero, after
\* memcpy with disjoint ranges dst[i] = src[i] for i in [0, n) and src is
\* as it was; every slot outside dst[0..n-1] is unchanged and n <= 0
\* changes nothing.
C18_MemFunctionsWriteNSlots ==
  \A m \in 1..Len(hist) :
    LET old == vals[m]
        new == vals[m + 1]
    IN  /\ \A k \in (1..(MemSlots + 1)) \ DstRange : new[k] = old[k]
        /\ c <= 0 => new = old
        /\ hist[m] = "memset" =>
             \A k \in DstRange : new[k] = old[MemSlots + 1]
        /\ hist[m] = "memset_zero" =>
             \A k \in DstRange : new[k] = Zero(size)
        /\ (hist[m] = "memcpy" /\ dp # sp) =>
             /\ \A i \in 0..(c - 1) : new[dp + i + 1] = old[sp + i + 1]
             /\ \A i \in 0..(RangeSlots - 1) : new[sp + i + 1] = old[sp + i + 1]

\* C18 witness: a memset of n = MaxN slots at a non-zero offset changed
\* those slots and left the slot after them as it was.
C18_Witness ==
  /\ hist = <<"memset">> /\ c = MaxN /\ dp = RangeSlots
  /\ \A k \in DstRange : vals[2][k] = vals[1][MemSlots + 1] /\ vals[2][k] # vals[1][k]
  /\ vals[2][dp + c + 1] = vals[1][dp + c + 1]

(***************************************************************************)
(* Specification SpecThreads: two threads, each in one block operation of  *)
(* the 128 bit module on its own slots, their memory accesses interleaved. *)
(* vals is <<memory, <<tmp1, tmp2>>, <<op1, op2>>>>, tmp the slot a thread *)
(* has read and not yet stored; hist is <<k1, k2>>, the number of accesses *)
(* each thread has made; c is the count n of the memory functions.         *)
(***************************************************************************)
Threads == {1, 2}

ThreadOps ==
  {"memset", "memset_zero", "memcpy", "block_bswap_64", "block_bswap_32"}

\* Every thread owns two ranges of BlockSlots slots: the one both threads
\* write being the same is what the threads of the claim do not do.
ThreadDstShared(t) == 0

ThreadDst(t) == 2 * BlockSlots * (t - 1)

ThreadSrc(t) == 2 * BlockSlots * (t - 1) + BlockSlots

\* The vector a thread passes to memset.
ThreadA(t) == TestVec(128, 100 + t)

ThreadMem0 == [i \in 1..(4 * BlockSlots) |-> TestVec(128, i)]

InitThreads ==
  /\ size = 128
  /\ tier \in TiersOf(size)
  /\ w = 64 /\ sp = 0 /\ dp = 0
  /\ c \in 1..MaxN
  /\ hist = <<0, 0>>
  /\ \E o1 \in ThreadOps, o2 \in ThreadOps :
       vals = <<ThreadMem0, <<m128_zero, m128_zero>>, <<o1, o2>> >>

\* Thread t reads the source slot of its next statement.
ThreadLoad(t) ==
  LET op == vals[3][t]
      k  == hist[t]
  IN  /\ k < StepsOf(op, c)
      /\ IsLoad(op, k)
      /\ vals' = [vals EXCEPT
                    ![2][t] = vals[1][ThreadSrc(t) + SlotOf(op, k) + 1]]
      /\ hist' = [hist EXCEPT ![t] = k + 1]
      /\ UNCHANGED <<tier, size, w, c, sp, dp>>

\* Thread t writes the destination slot of its statement.
ThreadStore(t) ==
  LET op == vals[3][t]
      k  == hist[t]
  IN  /\ k < StepsOf(op, c)
      /\ ~IsLoad(op, k)
      /\ vals' = [vals EXCEPT
                    ![1][ThreadDst(t) + SlotOf(op, k) + 1] =
                       Stored(op, tier, ThreadA(t), vals[2][t])]
      /\ hist' = [hist EXCEPT ![t] = k + 1]
      /\ UNCHANGED <<tier, size, w, c, sp, dp>>

NextThreads == \E t \in Threads : ThreadLoad(t) \/ ThreadStore(t)

SpecThreads == InitThreads /\ [][NextThreads]_vars

(***************************************************************************)
(* Claims about concurrent calls (under SpecThreads).                      *)
(***************************************************************************)
ThreadsDone == \A t \in Threads : hist[t] = StepsOf(vals[3][t], c)

\* The memory after thread t's operation run alone on mem.
AfterThread(t, mem) ==
  RunAlone(vals[3][t], tier, mem, ThreadDst(t), ThreadSrc(t), ThreadA(t), c)

\* C19: two threads each running a block operation (memset_128,
\* memset_zero_128, memcpy_128 or a block byte swap) on slots disjoint from
\* the other's: whatever the interleaving of their slot reads and writes,
\* the memory at the end is the memory of the two operations run one after
\* the other, in either order.
C19_DisjointThreadsAreSequential ==
  ThreadsDone =>
    /\ vals[1] = AfterThread(2, AfterThread(1, ThreadMem0))
    /\ vals[1] = AfterThread(1, AfterThread(2, ThreadMem0))

\* C19 witness: a memcpy and a block byte swap have both run to their end
\* and each has changed its destination.
C19_Witness ==
  /\ ThreadsDone
  /\ vals[3] = <<"memcpy", "block_bswap_64">> /\ c = MaxN
  /\ vals[1][ThreadDst(1) + 1] # ThreadMem0[ThreadDst(1) + 1]
  /\ vals[1][ThreadDst(2) + 1] # ThreadMem0[ThreadDst(2) + 1]

(***************************************************************************)
(* Claims about the index tables of the permutes (under SpecShuf).         *)
(***************************************************************************)

\* The index table steering operation name at granularity g.
TableOf(name, g) ==
  CASE name = "shuflr" /\ g = 16    -> Idx512_shuflr_16
    [] name = "shufll" /\ g = 16    -> Idx512_shufll_16
    [] name = "shuflr256" /\ g = 32 -> Idx512_shuflr256_32
    [] name = "shufll256" /\ g = 32 -> Idx512_shufll256_32
    [] name = "shuflr256" /\ g = 16 -> Idx512_shuflr256_16
    [] name = "shufll256" /\ g = 16 -> Idx512_shufll256_16

\* Whether operation name at granularity g is a permute steered by a table.
Steered(name, g) ==
  /\ size = 512
  /\ \/ name \in {"shuflr", "shufll"} /\ g = 16
     \/ name \in {"shuflr256", "shufll256"} /\ g \in {32, 16}

\* The low byte of index i of a table of ew bit indices, and whether the
\* bytes of the index above it are all zero (the index is below 256).
IndexLow(tab, ew, i) == ByteOf(tab, (ew \div 8) * i)

IndexHighIsZero(tab, ew, i) ==
  \A b \in 1..((ew \div 8) - 1) : ByteOf(tab, (ew \div 8) * i + b) = 0

\* A valid index set: every index in [0, count) and destination -> source
\* a bijection.
ValidIndexSet(tab, ew) ==
  LET count == 512 \div ew
  IN  /\ \A i \in 0..(count - 1) :
           IndexHighIsZero(tab, ew, i) /\ IndexLow(tab, ew, i) < count
      /\ {IndexLow(tab, ew, i) : i \in 0..(count - 1)} = 0..(count - 1)

ElemsOf(ew, v) == {Elem(ew, v, i) : i \in 0..((Len(v) \div ew) - 1)}

\* C20: every index table steering a full-vector permute of the 512 bit
\* module (mm512_shuflr_16, mm512_shufll_16, mm512_shuflr256_32,
\* mm512_shufll256_32, mm512_shuflr256_16, mm512_shufll256_16) is a valid
\* index set: every index in [0, element count) and no source element used
\* twice or left out, so the permute gives the elements of its input.
C20_IndexTablesAreValid ==
  \A m \in 1..Len(hist) :
    Steered(hist[m], w) =>
      /\ ValidIndexSet(TableOf(hist[m], w), w)
      /\ ElemsOf(w, vals[m + 1][1]) = ElemsOf(w, vals[m][1])

\* C20 for the tables other than that of mm512_shuflr256_16: they are valid
\* index sets.
C20_IndexTablesBut256_16 ==
  \A m \in 1..Len(hist) :
    (Steered(hist[m], w) /\ ~(hist[m] = "shuflr256" /\ w = 16)) =>
      /\ ValidIndexSet(TableOf(hist[m], w), w)
      /\ ElemsOf(w, vals[m + 1][1]) = ElemsOf(w, vals[m][1])

\* C20 for the table of mm512_shuflr256_16: its indices are in range, but
\* destination 30 takes source 1, which destination 0 takes too, and no
\* destination takes source 31.
C20_Shuflr256_16RepeatsIndex1 ==
  \A m \in 1..Len(hist) :
    (hist[m] = "shuflr256" /\ w = 16) =>
      /\ \A i \in 0..31 : IndexLow(Idx512_shuflr256_16, 16, i) < 32
      /\ IndexLow(Idx512_shuflr256_16, 16, 30) = 1
      /\ IndexLow(Idx512_shuflr256_16, 16, 0) = 1
      /\ \A i \in 0..31 : IndexLow(Idx512_shuflr256_16, 16, i) # 31
      /\ Elem(16, vals[m + 1][1], 30) = Elem(16, vals[m][1], 1)

(***************************************************************************)
(* Claims about the byte shuffles of the whole vector (under SpecShuf).    *)
(***************************************************************************)

\* C21: mm512_shuflr_8 and mm512_shufll_8 rotate the whole vector by one
\* byte across the 128 bit lanes: byte i of mm512_shuflr_8( v ) is byte
\* (i + 1) mod 64 of v and byte i of mm512_shufll_8( v ) is byte (i - 1) mod
\* 64 of v, for every i in [0, 64), the lane boundaries included.
C21_Shufl8CrossesLanes ==
  \A m \in 1..Len(hist) :
    (size = 512 /\ w = 8) =>
      /\ hist[m] = "shuflr" =>
           \A i \in 0..63 :
             ByteOf(vals[m + 1][1], i) = ByteOf(vals[m][1], (i + 1) % 64)
      /\ hist[m] = "shufll" =>
           \A i \in 0..63 :
             ByteOf(vals[m + 1][1], i) = ByteOf(vals[m][1], (i + 63) % 64)

\* C21 away from the lane boundaries: there the byte comes from its
\* neighbour in the whole vector.
C21_Shufl8InsideLane ==
  \A m \in 1..Len(hist) :
    (size = 512 /\ w = 8) =>
      /\ hist[m] = "shuflr" =>
           \A i \in (0..63) \ {15, 31, 47, 63} :
             ByteOf(vals[m + 1][1], i) = ByteOf(vals[m][1], (i + 1) % 64)
      /\ hist[m] = "shufll" =>
           \A i \in (0..63) \ {0, 16, 32, 48} :
             ByteOf(vals[m + 1][1], i) = ByteOf(vals[m][1], (i + 63) % 64)

\* C21 at the lane boundaries: the byte comes from the other end of its own
\* 128 bit lane, so each lane is rotated by itself.
C21_Shufl8WrapsInLane ==
  \A m \in 1..Len(hist) :
    (size = 512 /\ w = 8) =>
      /\ hist[m] = "shuflr" =>
           \A i \in {15, 31, 47, 63} :
             /\ ByteOf(vals[m + 1][1], i) = ByteOf(vals[m][1], i - 15)
             /\ ByteOf(vals[m + 1][1], i) # ByteOf(vals[m][1], (i + 1) % 64)
      /\ hist[m] = "shufll" =>
           \A i \in {0, 16, 32, 48} :
             /\ ByteOf(vals[m + 1][1], i) = ByteOf(vals[m][1], i + 15)
             /\ ByteOf(vals[m + 1][1], i) # ByteOf(vals[m][1], (i + 63) % 64)

(***************************************************************************)
(* SpecByteRot: the rotations by a whole number of bytes within the lanes  *)
(* of a 128 bit vector, at every tier.  w is the lane width and c the      *)
(* rotation in bits.                                                       *)
(***************************************************************************)

ByteRots == {<<64, 24>>, <<64, 16>>, <<32, 16>>, <<32, 8>>}

InitByteRot ==
  /\ size = 128
  /\ tier \in TiersOf(size)
  /\ w \in {64, 32}
  /\ c \in {24, 16, 8}
  /\ <<w, c>> \in ByteRots
  /\ sp = 0 /\ dp = 0
  /\ \E j \in 0..(2 * NumVec - 1) : Load(j)

Shuflr64_24 ==
  /\ w = 64 /\ c = 24
  /\ Apply("shuflr64_24", <<mm128_shuflr64_24(tier, Reg[1]), Reg[2]>>)

Shuflr64_16 ==
  /\ w = 64 /\ c = 16
  /\ Apply("shuflr64_16", <<mm128_shuflr64_16(tier, Reg[1]), Reg[2]>>)

Swap32_16 ==
  /\ w = 32 /\ c = 16
  /\ Apply("swap32_16", <<mm128_swap32_16(tier, Reg[1]), Reg[2]>>)

Shuflr32_8 ==
  /\ w = 32 /\ c = 8
  /\ Apply("shuflr32_8", <<mm128_shuflr32_8(tier, Reg[1]), Reg[2]>>)

NextByteRot == Shuflr64_24 \/ Shuflr64_16 \/ Swap32_16 \/ Shuflr32_8

SpecByteRot == InitByteRot /\ [][NextByteRot]_vars

\* The rotation to the right by k bytes within every lane of lw bits, on
\* the bytes of the vector.
RotrLanes(lw, v, k) ==
  FromBytes([i \in 1..(Len(v) \div 8) |->
    ByteOf(v, (lw \div 8) * ((i - 1) \div (lw \div 8))
              + ((((i - 1) % (lw \div 8)) + k) % (lw \div 8)))])

\* C22: the byte-granular rotations give the same result at every tier:
\* mm128_shuflr64_24( v ) is mm128_ror_64( v, 24 ), mm128_shuflr64_16( v ) is
\* mm128_ror_64( v, 16 ), mm128_swap32_16( v ) is mm128_ror_32( v, 16 ) and
\* mm128_shuflr32_8( v ) is mm128_ror_32( v, 8 ), whether the tier takes the
\* byte shuffle or the shifts, and that result is the rotation of the bytes
\* of every lane.
C22_ByteShuffleIsRotate ==
  \A m \in 1..Len(hist) :
    LET x == vals[m][1]
        r == vals[m + 1][1]
    IN /\ hist[m] = "shuflr64_24" =>
            /\ \A t \in TiersOf(size) : r = mm128_ror_64(t, x, 24)
            /\ r = RotrLanes(64, x, 3)
       /\ hist[m] = "shuflr64_16" =>
            /\ \A t \in TiersOf(size) : r = mm128_ror_64(t, x, 16)
            /\ r = RotrLanes(64, x, 2)
       /\ hist[m] = "swap32_16" =>
            /\ \A t \in TiersOf(size) : r = mm128_ror_32(t, x, 16)
            /\ r = RotrLanes(32, x, 2)
       /\ hist[m] = "shuflr32_8" =>
            /\ \A t \in TiersOf(size) : r = mm128_ror_32(t, x, 8)
            /\ r = RotrLanes(32, x, 1)

\* C22 witness: at a tier that takes the byte shuffle, mm128_shuflr32_8 and
\* then again, and the vector moved each time.
C22_Witness ==
  /\ Has(tier, "SSSE3") /\ ~Has(tier, "AVX512")
  /\ hist = <<"shuflr32_8", "shuflr32_8">>
  /\ vals[2][1] # vals[1][1]
  /\ vals[3][1] # vals[2][1]

\* C22 witness of the 64 bit lanes: mm128_shuflr64_24 by the byte shuffle.
C22_Witness64 ==
  /\ tier = "SSSE3"
  /\ hist = <<"shuflr64_24", "shuflr64_24">>
  /\ vals[3][1] # vals[1][1]

(***************************************************************************)
(* Claims about the rotations within the 256 bit lanes (under SpecShuf).   *)
(***************************************************************************)

\* The rotation of the elements of g bits of every 256 bit lane of v by d
\* places: element i of a lane is element (i + d) mod (256 / g) of that lane.
RotInHalves(g, v, d) ==
  [j \in 1..Len(v) |->
     LET i == (j - 1) \div g
         n == 256 \div g
     IN  v[256 * (i \div n) + g * ((i + d) % n) + ((j - 1) % g) + 1]]

\* C23: each mm512_shuflr256_g / mm512_shufll256_g, g in {128, 64, 32, 16,
\* 8}, rotates each 256 bit half of the vector by one element of g bits, the
\* halves independently of each other (right: element i is the old element
\* i + 1 of the half, left: the old element i - 1), and the left rotation
\* after the right one gives the vector back.
C23_Shufl256RotatesHalves ==
  /\ \A m \in 1..Len(hist) :
       /\ hist[m] = "shuflr256" => vals[m + 1][1] = RotInHalves(w, vals[m][1], 1)
       /\ hist[m] = "shufll256" =>
            vals[m + 1][1] = RotInHalves(w, vals[m][1], (256 \div w) - 1)
  /\ \A m \in 1..(Len(hist) - 1) :
       (hist[m] = "shuflr256" /\ hist[m + 1] = "shufll256")
         => vals[m + 2][1] = vals[m][1]

\* C23 at the granularities 128, 64 and 32, and for the left rotation at 16:
\* there the statement holds.
C23_Shufl256By128_64_32 ==
  /\ \A m \in 1..Len(hist) :
       /\ (hist[m] = "shuflr256" /\ w \in {128, 64, 32})
            => vals[m + 1][1] = RotInHalves(w, vals[m][1], 1)
       /\ (hist[m] = "shufll256" /\ w \in {128, 64, 32, 16})
            => vals[m + 1][1] = RotInHalves(w, vals[m][1], (256 \div w) - 1)
  /\ \A m \in 1..(Len(hist) - 1) :
       (hist[m] = "shuflr256" /\ hist[m + 1] = "shufll256"
          /\ w \in {128, 64, 32})
         => /\ vals[m + 2][1] = vals[m][1]
            /\ vals[m + 1][1] # vals[m][1]

\* The rotation of the bytes of every 128 bit lane of v by d places.
RotInLanes8(v, d) ==
  [j \in 1..Len(v) |->
     LET i == (j - 1) \div 8
     IN  v[128 * (i \div 16) + 8 * ((i + d) % 16) + ((j - 1) % 8) + 1]]

\* C23 at granularity 8: the byte shuffle rotates every 128 bit lane by
\* itself, which is not the rotation of the 256 bit half.
C23_Shufl256_8RotatesLanes ==
  \A m \in 1..Len(hist) :
    w = 8 =>
      /\ hist[m] = "shuflr256" =>
           /\ vals[m + 1][1] = RotInLanes8(vals[m][1], 1)
           /\ vals[m + 1][1] # RotInHalves(8, vals[m][1], 1)
      /\ hist[m] = "shufll256" =>
           /\ vals[m + 1][1] = RotInLanes8(vals[m][1], 15)
           /\ vals[m + 1][1] # RotInHalves(8, vals[m][1], 31)

\* C23 at granularity 16, to the right: all elements but element 14 of the
\* upper half are the rotated ones, and that one is element 1 of the vector.
C23_Shuflr256_16MissesOne ==
  \A m \in 1..Len(hist) :
    (hist[m] = "shuflr256" /\ w = 16) =>
      /\ \A i \in (0..31) \ {30} :
           Elem(16, vals[m + 1][1], i)
             = Elem(16, RotInHalves(16, vals[m][1], 1), i)
      /\ Elem(16, vals[m + 1][1], 30) = Elem(16, vals[m][1], 1)
      /\ Elem(16, vals[m + 1][1], 30) # Elem(16, vals[m][1], 31)

(***************************************************************************)
(* SpecShift: the zero filling shifts of the 512 bit vector; w is the      *)
(* width of the unit that is shifted.                                      *)
(***************************************************************************)

ShiftrCall(g, v) ==
  CASE g = 256 -> mm512_shiftr_256(v)
    [] g = 128 -> mm512_shiftr_128(v)
    [] g = 64 -> mm512_shiftr_64(v)
    [] g = 32 -> mm512_shiftr_32(v)

ShiftlCall(g, v) ==
  CASE g = 256 -> mm512_shiftl_256(v)
    [] g = 128 -> mm512_shiftl_128(v)
    [] g = 64 -> mm512_shiftl_64(v)
    [] g = 32 -> mm512_shiftl_32(v)

InitShift ==
  /\ size = 512
  /\ tier \in TiersOf(size)
  /\ w \in {256, 128, 64, 32}
  /\ c = 0 /\ sp = 0 /\ dp = 0
  /\ \E j \in 0..(4 * NumVec - 1) : Load(j)

Shiftr ==
  /\ IsVec(Reg[1])
  /\ Apply("shiftr", <<ShiftrCall(w, Reg[1]), Reg[2]>>)

Shiftl ==
  /\ IsVec(Reg[1])
  /\ Apply("shiftl", <<ShiftlCall(w, Reg[1]), Reg[2]>>)

NextShift == Shiftr \/ Shiftl

SpecShift == InitShift /\ [][NextShift]_vars

\* v shifted by one unit of g bits towards unit 0, zero in the top unit.
UnitsDown(g, v) ==
  [j \in 1..Len(v) |-> IF j + g <= Len(v) THEN v[j + g] ELSE 0]

\* v shifted by one unit of g bits away from unit 0, zero in unit 0.
UnitsUp(g, v) ==
  [j \in 1..Len(v) |-> IF j > g THEN v[j - g] ELSE 0]

\* C24: for g in {256, 128, 64, 32}, mm512_shiftr_g( v ) has unit j equal to
\* unit j + 1 of v below the top unit and zero in the top unit, and
\* mm512_shiftl_g( v ) has unit j equal to unit j - 1 of v above the bottom
\* unit and zero in the bottom unit; mm512_shiftl_256 is the mirror of
\* mm512_shiftr_256 and not the same transform.
C24_ShiftsFollowNames ==
  \A m \in 1..Len(hist) :
    /\ hist[m] = "shiftr" => vals[m + 1][1] = UnitsDown(w, vals[m][1])
    /\ hist[m] = "shiftl" => vals[m + 1][1] = UnitsUp(w, vals[m][1])

\* C24 for every macro but mm512_shiftl_256: there the statement holds.
C24_ShiftsBut256Left ==
  \A m \in 1..Len(hist) :
    /\ hist[m] = "shiftr" => vals[m + 1][1] = UnitsDown(w, vals[m][1])
    /\ (hist[m] = "shiftl" /\ w # 256)
         => vals[m + 1][1] = UnitsUp(w, vals[m][1])

\* C24 for mm512_shiftl_256: the macro yields no vector, and the right shift
\* that its body is spelled after is not the left shift either.
C24_Shiftl256IsNoShift ==
  \A m \in 1..Len(hist) :
    (hist[m] = "shiftl" /\ w = 256) =>
      /\ ~IsVec(vals[m + 1][1])
      /\ mm512_shiftr_256(vals[m][1]) # UnitsUp(256, vals[m][1])

(***************************************************************************)
(* SpecXim: insert, extract and mask on a 128 bit vector at the tiers      *)
(* with SSE4.1.  The registers are the vector, the integer to insert, the  *)
(* integer that was extracted, and the mask; c is the element number.      *)
(***************************************************************************)

InitXim ==
  /\ size = 128
  /\ tier \in {t \in TiersOf(size) : Has(t, "SSE4_1")}
  /\ w = 32
  /\ c \in 0..3
  /\ sp = 0 /\ dp = 0
  /\ hist = << >>
  /\ \E x \in Ints32, j \in 0..(NumVec - 1), m \in 0..15 :
       vals = << <<TestVec(128, j), x, <<0, 0, 0, 0>>, m>> >>

Insert32 ==
  /\ Has(tier, "SSE4_1")
  /\ Apply("insert_32",
           [Reg EXCEPT ![1] = mm128_insert_32(Reg[1], Reg[2], c)])

Mask32 ==
  /\ Has(tier, "SSE4_1")
  /\ Apply("mask_32", [Reg EXCEPT ![1] = mm128_mask_32(Reg[1], Reg[4])])

NextXim == Insert32 \/ Extract32 \/ Mask32

SpecXim == InitXim /\ [][NextXim]_vars

\* C25: mm128_insert_32( v, x, c ) has element c equal to x and the other
\* three elements equal to those of v, and mm128_extract_32 of it at c is x;
\* mm128_mask_32( v, m ) has element j equal to zero where bit j of m is set
\* and equal to element j of v otherwise.
C25_InsertMaskTouchNamedOnly ==
  /\ \A m \in 1..Len(hist) :
       LET old == vals[m][1]
           new == vals[m + 1][1]
       IN /\ hist[m] = "insert_32" =>
               /\ ReadInt(32, new, c) = vals[m][2]
               /\ \A j \in (0..3) \ {c} : Elem(32, new, j) = Elem(32, old, j)
               /\ mm128_extract_32(new, c) = vals[m][2]
          /\ hist[m] = "mask_32" =>
               \A j \in 0..3 :
                 Elem(32, new, j) =
                   IF (vals[m][4] \div Pow2(j)) % 2 = 1
                   THEN [b \in 1..32 |-> 0] ELSE Elem(32, old, j)
  /\ \A m \in 1..(Len(hist) - 1) :
       (hist[m] = "insert_32" /\ hist[m + 1] = "extract_32")
         => vals[m + 2][3] = vals[m][2]

\* C25 witness: an integer inserted at element 2 of a vector that held
\* another value there, and extracted again.
C25_Witness ==
  /\ c = 2
  /\ hist = <<"insert_32", "extract_32">>
  /\ vals[2][1] # vals[1][1]
  /\ vals[3][3] = vals[1][2]
  /\ vals[3][3] # <<0, 0, 0, 0>>

\* C25 witness of the mask: mask 0101 zeroed elements 0 and 2 of a vector
\* whose four elements were not zero, and left elements 1 and 3.
C25_WitnessMask ==
  /\ hist = <<"mask_32">>
  /\ vals[1][4] = 5
  /\ \A j \in 0..3 : Elem(32, vals[1][1], j) # [b \in 1..32 |-> 0]
  /\ Elem(32, vals[2][1], 0) = [b \in 1..32 |-> 0]
  /\ Elem(32, vals[2][1], 1) = Elem(32, vals[1][1], 1)

(***************************************************************************)
(* Claims about the block byte swap in place (under SpecSwap).             *)
(***************************************************************************)

\* C26: a block byte swap whose destination pointer equals its source
\* pointer leaves in every slot i in 0..7 the byte swap of the value the
\* slot held before the call, for mm512_block_bswap_64, mm512_block_bswap_32
\* and the 128 bit block swaps at both tiers; the slots outside the block
\* keep their values.
C26_BlockBswapInPlace ==
  \A m \in 1..Len(hist) :
    (hist[m] = "block_bswap" /\ dp = sp) =>
      /\ \A i \in 1..BlockSlots :
           vals[m + 1][dp + i] = BswapCall(tier, size, w, vals[m][dp + i])
      /\ \A i \in (1..Len(vals[m])) \ {dp + k : k \in 1..BlockSlots} :
           vals[m + 1][i] = vals[m][i]

\* C26 witness: a 32 bit block swap of the 512 bit module in place changed
\* the first and the last slot of the block, and a second one restored them.
C26_Witness ==
  /\ hist = <<"block_bswap", "block_bswap">>
  /\ dp = sp /\ size = 512 /\ w = 32
  /\ vals[2][dp + 1] # vals[1][dp + 1]
  /\ vals[2][dp + BlockSlots] # vals[1][dp + BlockSlots]
  /\ vals[3] = vals[1]

\* C26 witness of the 128 bit module without SSSE3: a 64 bit block swap in
\* place changed every slot of the block.
C26_WitnessSSE2 ==
  /\ hist = <<"block_bswap">>
  /\ dp = sp /\ size = 128 /\ w = 64 /\ tier = "SSE2"
  /\ \A i \in 1..BlockSlots : vals[2][dp + i] # vals[1][dp + i]

====
